---- MODULE Spec2Model ----
(***************************************************************************)
(* The Immich compatibility adapter of internal/immich/immich.go: the      *)
(* endpoint prober (doJSONWithFallback and the per-call candidate loops),  *)
(* the album binder (AddAssetToAlbum) and the upstream they talk to.       *)
(*                                                                         *)
(* One step of a caller is one physical HTTP request together with all the *)
(* local code that runs until the next request is sent or the call         *)
(* returns.  log[p] holds the attempts of the call; an attempt made under  *)
(* a cancelled context fails in the transport and is never sent.  The upstream is the environment: it answers every request     *)
(* with any status (or fails at transport level); a 2xx answer carries out *)
(* the request on the upstream's album store.                              *)
(***************************************************************************)
EXTENDS Integers, Sequences, FiniteSets, TLC

VARIABLES
  cfg,     \* the Config the calls are made with (immutable after load)
  albums,  \* upstream: the album store, in listing order
  st,      \* st[p]: the frame of caller p's current call
  log,     \* log[p]: the physical requests of p's current call, in order
  last,    \* last[p]: the upstream's answer to p's latest request
  calls,   \* calls[p]: how many calls p may still start
  ctxDone  \* ctxDone[p]: the context of p's current call has been cancelled

vars == <<cfg, albums, st, log, last, calls, ctxDone>>

----------------------------------------------------------------------------
(* Bounds of the model. *)

\* longest candidate list handed to a direct doJSONWithFallback call
MaxCand == 3
\* calls the single caller makes in sequence
MaxCalls == 2
\* calls each of the concurrent callers makes
MaxConcurrentCalls == 1
\* albums the upstream store holds before it refuses to create more
MaxAlbums == 2

Procs == {1, 2}

----------------------------------------------------------------------------
(* Strings that the code takes apart are sequences of tokens: "/" is the   *)
(* slash, "x" any other character, "U1" and "U2" stand for a whole         *)
(* UUID-shaped block (36 characters matching uuidPattern).                 *)

UuidTokens == {"U1", "U2"}

\* uuidPattern.MatchString: an unanchored search for a UUID-shaped block
uuidPatternMatchString(s) == \E k \in 1..Len(s) : s[k] \in UuidTokens

\* strings.TrimLeft(s, "/")
RECURSIVE TrimLeftSlash(_)
TrimLeftSlash(s) ==
  IF s # <<>> /\ Head(s) = "/" THEN TrimLeftSlash(Tail(s)) ELSE s

\* fmt.Sprintf("%s", id) of a token string, for building paths
RECURSIVE Text(_)
Text(s) == IF s = <<>> THEN "" ELSE Head(s) \o Text(Tail(s))

\* strings.EqualFold on the album names of the model
Fold(n) == IF n \in {"Memos", "MEMOS", "memos"} THEN "memos" ELSE n
EqualFold(a, b) == Fold(a) = Fold(b)

----------------------------------------------------------------------------
(* JSON values, tagged by kind.  An object is the sequence of its          *)
(* <<key, value>> members in the order of the text.                        *)

JNull == [t |-> "null", v |-> <<>>]
JStr(s) == [t |-> "str", v |-> s]
JNum(n) == [t |-> "num", v |-> n]
JBool(b) == [t |-> "bool", v |-> b]
JArr(s) == [t |-> "arr", v |-> s]
JObj(members) == [t |-> "obj", v |-> members]

HasKey(j, k) == j.t = "obj" /\ \E m \in 1..Len(j.v) : j.v[m][1] = k

\* the member encoding/json keeps for key k: the last one in the text
Member(j, k) ==
  LET m == CHOOSE n \in 1..Len(j.v) :
             /\ j.v[n][1] = k
             /\ \A n2 \in (n + 1)..Len(j.v) : j.v[n2][1] # k
  IN j.v[m][2]

\* encoding/json on a string field: absent or null leaves the zero value, a
\* string is stored, anything else is a type error
StrFieldOk(j, k) == ~HasKey(j, k) \/ Member(j, k).t \in {"str", "null"}
StrField(j, k, zero) ==
  IF HasKey(j, k) /\ Member(j, k).t = "str" THEN Member(j, k).v ELSE zero

----------------------------------------------------------------------------
(* Errors.  Nil is Go's nil error. *)

Nil == [kind |-> "nil", StatusCode |-> 0, Message |-> ""]
\* &httpStatusError{StatusCode, Message}
HttpStatusError(code, msg) ==
  [kind |-> "httpStatusError", StatusCode |-> code, Message |-> msg]
\* the error of c.httpClient.Do (a *url.Error)
TransportError(msg) == [kind |-> "transport", StatusCode |-> 0, Message |-> msg]
\* an error of encoding/json, or fmt.Errorf("failed to decode immich ...")
DecodeError(msg) == [kind |-> "decode", StatusCode |-> 0, Message |-> msg]
\* fmt.Errorf("immich get asset info failed: %s", resp.Status)
AssetInfoError(code) ==
  [kind |-> "errorString", StatusCode |-> code,
   Message |-> "immich get asset info failed"]

\* a nil []byte
NoData == [t |-> "none", v |-> <<>>]

StatusOK == 200
StatusNotFound == 404
StatusMethodNotAllowed == 405
StatusInternalServerError == 500
StatusBadGateway == 502
StatusBadRequest == 400
StatusUnauthorized == 401
\* the outcome of a request the transport could not complete
TransportFailure == 0

isRetryableImmichPath_OnlyNotFound(err) ==
  /\ err.kind = "httpStatusError"
  /\ err.StatusCode = StatusNotFound

isRetryableImmichPath_AnyStatus(err) == err.kind = "httpStatusError"

\* errors of the transport taken for "try the next candidate" as well
isRetryableImmichPath_TransportErrors(err) ==
  \/ err.kind = "transport"
  \/ /\ err.kind = "httpStatusError"
     /\ err.StatusCode \in {StatusNotFound, StatusMethodNotAllowed}

isRetryableImmichPath(err) ==
  /\ err.kind = "httpStatusError"
  /\ err.StatusCode \in {StatusNotFound, StatusMethodNotAllowed}

----------------------------------------------------------------------------
(* Albums and their decoders. *)

\* json.Unmarshal(data, &album) succeeds
AlbumOk(j) ==
  /\ j.t \in {"obj", "null"}
  /\ StrFieldOk(j, "id") /\ StrFieldOk(j, "albumName") /\ StrFieldOk(j, "name")

\* the Album it leaves
AlbumOf(j) ==
  [ID |-> StrField(j, "id", ""), AlbumName |-> StrField(j, "albumName", ""),
   Name |-> StrField(j, "name", "")]

DisplayName(a) == IF a.AlbumName # "" THEN a.AlbumName ELSE a.Name

\* json.Unmarshal(data, &albums) for albums []Album succeeds
AlbumSliceOk(j) ==
  \/ j.t = "null"
  \/ j.t = "arr" /\ \A k \in 1..Len(j.v) : AlbumOk(j.v[k])

AlbumSliceOf(j) ==
  IF j.t = "arr" THEN [k \in 1..Len(j.v) |-> AlbumOf(j.v[k])] ELSE <<>>

decodeAlbums(data) ==
  IF AlbumSliceOk(data) /\ Len(AlbumSliceOf(data)) > 0
  THEN [albums |-> AlbumSliceOf(data), err |-> Nil]
  ELSE IF /\ data.t = "obj"
          /\ HasKey(data, "albums")
          /\ AlbumSliceOk(Member(data, "albums"))
          /\ Len(AlbumSliceOf(Member(data, "albums"))) > 0
  THEN [albums |-> AlbumSliceOf(Member(data, "albums")), err |-> Nil]
  ELSE IF ~AlbumSliceOk(data)
  THEN [albums |-> <<>>, err |-> DecodeError("json")]
  ELSE [albums |-> AlbumSliceOf(data), err |-> Nil]

NoAlbum == [ID |-> "", AlbumName |-> "", Name |-> ""]

decodeAlbum(data) ==
  IF /\ AlbumOk(data)
     /\ (AlbumOf(data).ID # "" \/ AlbumOf(data).AlbumName # ""
         \/ AlbumOf(data).Name # "")
  THEN [album |-> AlbumOf(data), err |-> Nil]
  ELSE IF /\ data.t = "obj"
          /\ HasKey(data, "album")
          /\ Member(data, "album").t = "obj"
          /\ AlbumOk(Member(data, "album"))
  THEN [album |-> AlbumOf(Member(data, "album")), err |-> Nil]
  ELSE [album |-> NoAlbum, err |-> DecodeError("failed to decode immich album")]

----------------------------------------------------------------------------
(* Assets and their decoders.  The strings of an asset record are token    *)
(* sequences.                                                              *)

NumField(j, k) ==
  IF HasKey(j, k) /\ Member(j, k).t = "num" THEN Member(j, k).v ELSE 0

\* string(raw): the text of a JSON value, as far as uuidPattern can see it
RECURSIVE RawText(_)
RECURSIVE RawTextAll(_, _)
RawTextAll(vals, isMembers) ==
  IF vals = <<>> THEN <<>>
  ELSE RawText(IF isMembers THEN Head(vals)[2] ELSE Head(vals))
         \o RawTextAll(Tail(vals), isMembers)
RawText(j) ==
  CASE j.t = "str" -> j.v
    [] j.t = "arr" -> RawTextAll(j.v, FALSE)
    [] j.t = "obj" -> RawTextAll(j.v, TRUE)
    [] OTHER -> <<>>

\* uuidPattern.FindString: the leftmost UUID-shaped block, or ""
uuidPatternFindString(s) ==
  IF uuidPatternMatchString(s)
  THEN LET k == CHOOSE n \in 1..Len(s) :
                  s[n] \in UuidTokens /\ \A m \in 1..(n - 1) : s[m] \notin UuidTokens
       IN <<s[k]>>
  ELSE <<>>

\* json.Unmarshal(raw, &asset) succeeds
AssetOk(j) ==
  /\ j.t \in {"obj", "null"}
  /\ \A k \in {"id", "assetId", "deviceAssetId", "uuid", "originalFileName",
               "originalMimeType", "type"} : StrFieldOk(j, k)
  /\ (HasKey(j, "fileSizeInByte") => Member(j, "fileSizeInByte").t \in {"num", "null"})

FirstNonEmpty(ids) ==
  IF \E k \in 1..Len(ids) : ids[k] # <<>>
  THEN ids[CHOOSE n \in 1..Len(ids) :
             ids[n] # <<>> /\ \A m \in 1..(n - 1) : ids[m] = <<>>]
  ELSE <<>>

\* the fallback chain trimming each field before it asks whether it is empty
decodeAssetRaw_TrimsEachField(raw) ==
  IF ~AssetOk(raw)
  THEN [asset |-> [ID |-> <<>>, AssetID |-> <<>>, DeviceAssetID |-> <<>>,
                   UUID |-> <<>>],
        err |-> DecodeError("json")]
  ELSE LET id == StrField(raw, "id", <<>>)
           assetId == StrField(raw, "assetId", <<>>)
           deviceAssetId == StrField(raw, "deviceAssetId", <<>>)
           uuid == StrField(raw, "uuid", <<>>)
           trimmed == FirstNonEmpty(<<TrimLeftSlash(id), TrimLeftSlash(assetId),
                                      TrimLeftSlash(deviceAssetId), TrimLeftSlash(uuid)>>)
       IN [asset |-> [ID |-> IF trimmed = <<>>
                              THEN uuidPatternFindString(RawText(raw))
                              ELSE trimmed,
                      AssetID |-> assetId, DeviceAssetID |-> deviceAssetId,
                      UUID |-> uuid],
           err |-> Nil]

decodeAssetRaw(raw) ==
  IF ~AssetOk(raw)
  THEN [asset |-> [ID |-> <<>>, AssetID |-> <<>>, DeviceAssetID |-> <<>>,
                   UUID |-> <<>>],
        err |-> DecodeError("json")]
  ELSE LET id == StrField(raw, "id", <<>>)
           assetId == StrField(raw, "assetId", <<>>)
           deviceAssetId == StrField(raw, "deviceAssetId", <<>>)
           uuid == StrField(raw, "uuid", <<>>)
           trimmed == TrimLeftSlash(FirstNonEmpty(<<id, assetId, deviceAssetId, uuid>>))
       IN [asset |-> [ID |-> IF trimmed = <<>>
                              THEN uuidPatternFindString(RawText(raw))
                              ELSE trimmed,
                      AssetID |-> assetId, DeviceAssetID |-> deviceAssetId,
                      UUID |-> uuid],
           err |-> Nil]

\* the loop leaving out the assets whose identifier stayed empty
decodeAssetSlice_DropsEmptyIds(rawAssets) ==
  IF \E k \in 1..Len(rawAssets) : decodeAssetRaw(rawAssets[k]).err # Nil
  THEN [assets |-> <<>>, err |-> DecodeError("json")]
  ELSE [assets |-> SelectSeq([k \in 1..Len(rawAssets) |-> decodeAssetRaw(rawAssets[k]).asset],
                             LAMBDA a : a.ID # <<>>),
        err |-> Nil]

decodeAssetSlice(rawAssets) ==
  IF \E k \in 1..Len(rawAssets) : decodeAssetRaw(rawAssets[k]).err # Nil
  THEN [assets |-> <<>>, err |-> DecodeError("json")]
  ELSE [assets |-> [k \in 1..Len(rawAssets) |-> decodeAssetRaw(rawAssets[k]).asset],
        err |-> Nil]

\* json.Unmarshal(data, &rawArray) for rawArray []json.RawMessage succeeds
RawArrayOk(j) == j.t \in {"arr", "null"}
RawArrayOf(j) == IF j.t = "arr" THEN j.v ELSE <<>>

decodeAssetsFromUnknown(data) ==
  IF RawArrayOk(data) THEN decodeAssetSlice(RawArrayOf(data))
  ELSE IF data.t # "obj" THEN [assets |-> <<>>, err |-> DecodeError("json")]
  ELSE IF HasKey(data, "assets") /\ RawArrayOk(Member(data, "assets"))
  THEN decodeAssetSlice(RawArrayOf(Member(data, "assets")))
  ELSE IF /\ HasKey(data, "assets")
          /\ HasKey(Member(data, "assets"), "items")
          /\ RawArrayOk(Member(Member(data, "assets"), "items"))
  THEN decodeAssetSlice(RawArrayOf(Member(Member(data, "assets"), "items")))
  ELSE IF HasKey(data, "items") /\ RawArrayOk(Member(data, "items"))
  THEN decodeAssetSlice(RawArrayOf(Member(data, "items")))
  ELSE [assets |-> <<>>, err |-> DecodeError("failed to decode immich assets")]

NoSearchAssetsResponse == [Assets |-> <<>>, NextPage |-> 0, NextPageToken |-> ""]

\* decodeSearchAssets once decodeAssetsFromUnknown has returned dec
WithAssets(data, dec) ==
  IF dec.err # Nil THEN [resp |-> NoSearchAssetsResponse, err |-> dec.err]
  ELSE [resp |-> [Assets |-> dec.assets,
                  NextPage |-> NumField(data, "nextPage"),
                  NextPageToken |-> StrField(data, "nextPageToken", "")],
        err |-> Nil]
decodeSearchAssets(data) == WithAssets(data, decodeAssetsFromUnknown(data))

----------------------------------------------------------------------------
(* The upstream.  Its album store is a sequence of albums in listing       *)
(* order; "by" remembers the call whose create-album request made the      *)
(* album: the caller, the calls the caller had left, and the asset the     *)
(* call was made for (<<0, 0, <<>>>> for an album that was there from the  *)
(* start).                                                                 *)

AlbumIds == <<"a1", "a2", "a3", "a4">>

AssetsPath(albumID) == "/albums/" \o albumID \o "/assets"

NoPayload == [albumName |-> "", ids |-> <<>>]

IsListAlbums(req) == req.method = "GET" /\ req.path \in {"/albums", "/album"}
IsCreateAlbum(req) == req.method = "POST" /\ req.path = "/albums"
IsAddAssets(req) == req.method \in {"PUT", "POST"} /\ req.payload.ids # <<>>
TargetOf(req) == {k \in 1..Len(albums) : AssetsPath(albums[k].id) = req.path}

\* The shapes in which deployments report albums: the envelope, the name
\* field and the identifier field differ between them.
DialectSeq ==
  << [env |-> "plain",   nameField |-> "albumName", idField |-> "id"],
     [env |-> "plain",   nameField |-> "name",      idField |-> "id"],
     [env |-> "wrapped", nameField |-> "albumName", idField |-> "id"],
     [env |-> "wrapped", nameField |-> "name",      idField |-> "id"],
     [env |-> "plain",   nameField |-> "albumName", idField |-> "albumId"],
     [env |-> "wrapped", nameField |-> "albumName", idField |-> "albumId"],
     [env |-> "other",   nameField |-> "albumName", idField |-> "id"] >>

AlbumJson(a, d) ==
  JObj(<< <<d.idField, JStr(a.id)>>, <<d.nameField, JStr(a.name)>> >>)

AlbumsBody(d) ==
  LET arr == JArr([k \in 1..Len(albums) |-> AlbumJson(albums[k], d)])
  IN CASE d.env = "plain" -> arr
       [] d.env = "wrapped" -> JObj(<< <<"albums", arr>> >>)
       [] OTHER -> JObj(<< <<"data", arr>> >>)

AlbumBody(a, d) ==
  CASE d.env = "plain" -> AlbumJson(a, d)
    [] d.env = "wrapped" -> JObj(<< <<"album", AlbumJson(a, d)>> >>)
    [] OTHER -> JObj(<< <<"data", AlbumJson(a, d)>> >>)

\* Bodies a deployment answers an asset request with.
AssetJson1 == JObj(<< <<"id", JStr(<<"U1">>)>>, <<"type", JStr(<<"x">>)>> >>)
AssetJson2 == JObj(<< <<"assetId", JStr(<<"/", "U2">>)>> >>)
\* a record without an identifier anywhere in it
AssetJson3 == JObj(<< <<"originalFileName", JStr(<<"x">>)>> >>)
BodySeq ==
  << JArr(<<AssetJson1, AssetJson2>>),
     JObj(<< <<"assets", JArr(<<AssetJson1>>)>>, <<"nextPage", JNum(2)>> >>),
     JObj(<< <<"assets", JObj(<< <<"items", JArr(<<AssetJson2>>)>> >>)>>,
             <<"nextPageToken", JStr("t2")>> >>),
     JObj(<< <<"items", JArr(<<AssetJson2, AssetJson1>>)>>, <<"nextPage", JNum(3)>>,
             <<"nextPageToken", JStr("t2")>> >>),
     JObj(<< <<"assets", JArr(<<AssetJson1, AssetJson3>>)>> >>),
     JObj(<< <<"data", JArr(<<AssetJson1>>)>> >>),
     AssetJson1,
     JStr(<<"x">>) >>

\* The answer to a membership add: one result per asset, success false
\* (error "duplicate") for an asset the album already holds.
AddAssetsBody(req) ==
  LET held == albums[CHOOSE n \in TargetOf(req) : TRUE].assets IN
  JArr([m \in 1..Len(req.payload.ids) |->
          JObj(<< <<"id", JStr(req.payload.ids[m])>>,
                  <<"success", JBool(req.payload.ids[m] \notin held)>> >>)])

\* how many shapes the upstream can answer req in
Shapes(req) ==
  IF IsListAlbums(req) \/ IsCreateAlbum(req) THEN Len(DialectSeq)
  ELSE IF IsAddAssets(req) THEN 1
  ELSE Len(BodySeq)

\* whether the upstream can answer req with status code
CanAnswer(req, code) ==
  code = StatusOK =>
    /\ IsCreateAlbum(req) => Len(albums) < MaxAlbums
    /\ (~IsCreateAlbum(req) /\ IsAddAssets(req)) => TargetOf(req) # {}

\* the upstream's answer to req with status code, in shape k, and the album
\* store it leaves
Upstream(req, code, k) ==
  IF code # StatusOK
  THEN [StatusCode |-> code, Message |-> req.method \o " " \o req.path,
        body |-> NoData, albums |-> albums]
  ELSE IF IsListAlbums(req)
  THEN [StatusCode |-> code, Message |-> "", body |-> AlbumsBody(DialectSeq[k]),
        albums |-> albums]
  ELSE IF IsCreateAlbum(req)
  THEN LET a == [id |-> AlbumIds[Len(albums) + 1], name |-> req.payload.albumName,
                 assets |-> {}, by |-> req.from]
       IN [StatusCode |-> code, Message |-> "", body |-> AlbumBody(a, DialectSeq[k]),
           albums |-> Append(albums, a)]
  ELSE IF IsAddAssets(req)
  THEN [StatusCode |-> code, Message |-> "", body |-> AddAssetsBody(req),
        albums |-> [n \in 1..Len(albums) |->
                      IF n \in TargetOf(req)
                      THEN [albums[n] EXCEPT
                              !.assets = @ \cup {req.payload.ids[m] : m \in 1..Len(req.payload.ids)}]
                      ELSE albums[n]]]
  ELSE [StatusCode |-> code, Message |-> "", body |-> BodySeq[k], albums |-> albums]

\* what the upstream may answer a request with
Outcomes ==
  {TransportFailure, StatusOK, StatusNotFound, StatusMethodNotAllowed,
   StatusInternalServerError}

\* what an observer on the wire sees of an answer
Class(code) ==
  IF code = TransportFailure THEN "fatal"
  ELSE IF code >= 200 /\ code < 300 THEN "2xx"
  ELSE IF code \in {404, 405} THEN "404or405"
  ELSE "fatal"

Entry(req, code) ==
  [method |-> req.method, path |-> req.path, query |-> req.query,
   class |-> Class(code), sent |-> TRUE]

\* c.httpClient.Do under a cancelled context: the transport gives up before
\* anything is sent and returns the context's error
Canceled(req) ==
  [StatusCode |-> TransportFailure, Message |-> "context canceled",
   body |-> NoData, albums |-> albums]

----------------------------------------------------------------------------
(* The client: one physical request. *)

\* doJSON, from the upstream's answer on
doJSON(resp) ==
  IF resp.StatusCode = TransportFailure
  THEN [data |-> NoData, err |-> TransportError(resp.Message)]
  ELSE IF resp.StatusCode < 200 \/ resp.StatusCode >= 300
  THEN [data |-> NoData, err |-> HttpStatusError(resp.StatusCode, resp.Message)]
  ELSE [data |-> resp.body, err |-> Nil]

\* doJSONWithQuery, from the upstream's answer on
doJSONWithQuery(resp) ==
  IF resp.StatusCode = TransportFailure
  THEN [data |-> NoData, err |-> TransportError(resp.Message)]
  ELSE IF resp.StatusCode < 200 \/ resp.StatusCode >= 300
  THEN [data |-> NoData, err |-> HttpStatusError(resp.StatusCode, resp.Message)]
  ELSE [data |-> resp.body, err |-> Nil]

\* strconv.Itoa
Digits == <<"0", "1", "2", "3", "4", "5", "6", "7", "8", "9">>
RECURSIVE Itoa(_)
Itoa(n) ==
  IF n < 0 THEN "-" \o Itoa(0 - n)
  ELSE IF n < 10 THEN Digits[n + 1]
  ELSE Itoa(n \div 10) \o Digits[(n % 10) + 1]

\* url.Values as a function from the keys that are set to their value
NoValues == [k \in {} |-> ""]

withQuery(order, ints, stringsMap) ==
  LET q1 == IF order # "" THEN [k \in {"order"} |-> order] ELSE NoValues
      q2 == [k \in {key \in DOMAIN ints : ints[key] > 0} |-> Itoa(ints[k])]
      q3 == [k \in {key \in DOMAIN stringsMap : stringsMap[key] # ""} |-> stringsMap[k]]
  IN q3 @@ q2 @@ q1

\* url.Values.Encode: "k=v" joined by "&", the keys in sorted order
QueryKeysSorted == <<"order", "page", "size", "skip", "take">>
RECURSIVE EncodeFrom(_, _)
EncodeFrom(q, n) ==
  IF n > Len(QueryKeysSorted) THEN ""
  ELSE LET k == QueryKeysSorted[n]
           rest == EncodeFrom(q, n + 1)
       IN IF k \notin DOMAIN q THEN rest
          ELSE k \o "=" \o q[k] \o (IF rest = "" THEN "" ELSE "&" \o rest)
Encode(q) == EncodeFrom(q, 1)

\* the query part of the URL doJSONWithQuery requests
QueryString(q) == IF DOMAIN q # {} THEN "?" \o Encode(q) ELSE ""

\* NewClient succeeds: url.Parse accepts the base URL
NewClientOk(c) == c.BaseURL # ":bad"

----------------------------------------------------------------------------
(* The frame of a call: the locals of the operation and of the probing     *)
(* loop it is in, and, once pc = "returned", what it returned.             *)

NoAssetInfo == [ID |-> <<>>]
\* an http.Header with nothing in it: a map from names to lists of values
NoHeader == [k \in {} |-> <<>>]
\* Asset{}
NoAsset == [ID |-> <<>>, AssetID |-> <<>>, DeviceAssetID |-> <<>>, UUID |-> <<>>]

IdleFrame ==
  [pc |-> "idle", op |-> "", site |-> "", method |-> "", paths |-> <<>>,
   i |-> 0, lastErr |-> Nil, payload |-> NoPayload, assetID |-> <<>>,
   albumID |-> "", outerErr |-> Nil, page |-> 0, size |-> 0, order |-> "",
   pi |-> 0, qi |-> 0, data |-> NoData, resp |-> NoSearchAssetsResponse,
   info |-> NoAssetInfo, err |-> Nil, arg |-> <<>>, listed |-> <<>>,
   httpStatus |-> 0, emitted |-> <<>>, nextPageToken |-> "",
   link |-> <<>>, id |-> <<>>, ok |-> FALSE, asset |-> NoAsset,
   album |-> NoAlbum, bearer |-> "", cookie |-> "", pageToken |-> "",
   loadMore |-> FALSE, requestHeaders |-> NoHeader, header |-> NoHeader,
   id2 |-> <<>>, ok2 |-> FALSE,
   open |-> FALSE, attachedAssetIds |-> <<>>, selectedIds |-> <<>>,
   isSelecting |-> FALSE, pending |-> 0, event |-> ""]

Returned(f, err) == [f EXCEPT !.pc = "returned", !.err = err]

RECURSIVE AfterFallback(_, _, _)

\* doJSONWithFallback is entered: "var lastErr error", and the loop over
\* paths is about to send its first request.  Every caller inside the client
\* passes a literal, non-empty list; a list handed in from outside may be
\* empty, and then the loop falls through (EmptyFallback).
EnterFallback(f, site, method, paths, payload) ==
  [f EXCEPT !.pc = "doJSONWithFallback", !.site = site,
            !.method = method, !.paths = paths, !.i = 1,
            !.lastErr = Nil, !.payload = payload]

\* the loop with the "return data, nil" of a successful attempt missing
FallbackIteration_NoEarlyReturn(f, r) ==
  IF r.err = Nil
  THEN IF f.i < Len(f.paths) THEN [f EXCEPT !.i = f.i + 1, !.data = r.data]
       ELSE AfterFallback(f, r.data, Nil)
  ELSE LET g == [f EXCEPT !.lastErr = r.err] IN
       IF ~isRetryableImmichPath(r.err) THEN AfterFallback(g, NoData, r.err)
       ELSE IF f.i < Len(f.paths) THEN [g EXCEPT !.i = f.i + 1]
       ELSE AfterFallback(g, NoData, g.lastErr)

\* the loop remembering the first error instead of the latest
FallbackIteration_KeepsFirstError(f, r) ==
  IF r.err = Nil THEN AfterFallback(f, r.data, Nil)
  ELSE LET g == [f EXCEPT !.lastErr = IF f.lastErr = Nil THEN r.err ELSE f.lastErr] IN
       IF ~isRetryableImmichPath(r.err) THEN AfterFallback(g, NoData, r.err)
       ELSE IF f.i < Len(f.paths) THEN [g EXCEPT !.i = f.i + 1]
       ELSE AfterFallback(g, NoData, g.lastErr)

\* one iteration of doJSONWithFallback's loop, r being what doJSON returned
FallbackIteration(f, r) ==
  IF r.err = Nil THEN AfterFallback(f, r.data, Nil)
  ELSE LET g == [f EXCEPT !.lastErr = r.err] IN
       IF ~isRetryableImmichPath(r.err) THEN AfterFallback(g, NoData, r.err)
       ELSE IF f.i < Len(f.paths) THEN [g EXCEPT !.i = f.i + 1]
       ELSE AfterFallback(g, NoData, g.lastErr)

\* AddAssetsToAlbum up to its first request
\* the no-op guard looking at the album ID only
AddAssetsToAlbum_SendsEmptyList(f, albumID, assetIDs) ==
  IF albumID = "" THEN Returned(f, Nil)
  ELSE EnterFallback([f EXCEPT !.albumID = albumID, !.outerErr = Nil],
                     "AddAssetsToAlbum.PUT", "PUT", <<AssetsPath(albumID)>>,
                     [albumName |-> "", ids |-> assetIDs])

AddAssetsToAlbum(f, albumID, assetIDs) ==
  IF albumID = "" \/ Len(assetIDs) = 0 THEN Returned(f, Nil)
  ELSE EnterFallback([f EXCEPT !.albumID = albumID, !.outerErr = Nil],
                     "AddAssetsToAlbum.PUT", "PUT", <<AssetsPath(albumID)>>,
                     [albumName |-> "", ids |-> assetIDs])

\* whether the body of a membership add reports an asset that was not added
ReportsNotAdded(data) ==
  /\ data.t = "arr"
  /\ \E k \in 1..Len(data.v) :
       HasKey(data.v[k], "success") /\ Member(data.v[k], "success") = JBool(FALSE)

\* the PUT branch failing the call on a per-asset "not added" result
AddAssetsToAlbumAfterPut_ChecksResults(f, data, err) ==
  IF err = Nil
  THEN IF ReportsNotAdded(data) THEN Returned(f, DecodeError("duplicate"))
       ELSE Returned(f, Nil)
  ELSE IF ~isRetryableImmichPath(err) THEN Returned([f EXCEPT !.outerErr = err], err)
  ELSE EnterFallback([f EXCEPT !.outerErr = err], "AddAssetsToAlbum.POST",
                     "POST", f.paths, f.payload)

\* the PUT branch with the isRetryableImmichPath test missing
AddAssetsToAlbumAfterPut_RetriesAnyFailure(f, data, err) ==
  IF err = Nil THEN Returned(f, Nil)
  ELSE EnterFallback([f EXCEPT !.outerErr = err], "AddAssetsToAlbum.POST",
                     "POST", f.paths, f.payload)

\* AddAssetsToAlbum after the PUT probe returned: the body is discarded
AddAssetsToAlbumAfterPut(f, data, err) ==
  IF err = Nil THEN Returned(f, Nil)
  ELSE IF ~isRetryableImmichPath(err) THEN Returned([f EXCEPT !.outerErr = err], err)
  ELSE EnterFallback([f EXCEPT !.outerErr = err], "AddAssetsToAlbum.POST",
                     "POST", f.paths, f.payload)

\* AddAssetsToAlbum after the POST probe returned: the body is discarded
AddAssetsToAlbumAfterPost(f, data, err) ==
  IF err = Nil THEN Returned(f, Nil)
  ELSE IF ~isRetryableImmichPath(err) THEN Returned([f EXCEPT !.outerErr = err], err)
  ELSE Returned([f EXCEPT !.outerErr = err], err)

\* ListAlbums, from the probe's return on
ListAlbums(data, err) ==
  IF err # Nil THEN [albums |-> <<>>, err |-> err] ELSE decodeAlbums(data)

\* CreateAlbum, from the probe's return on
CreateAlbum(data, err) ==
  IF err # Nil THEN [album |-> NoAlbum, err |-> err] ELSE decodeAlbum(data)

\* the loop of AddAssetToAlbum over the listed albums
MatchAlbumID(listed, name) ==
  IF \E k \in 1..Len(listed) : EqualFold(DisplayName(listed[k]), name)
  THEN listed[CHOOSE n \in 1..Len(listed) :
                /\ EqualFold(DisplayName(listed[n]), name)
                /\ \A m \in 1..(n - 1) : ~EqualFold(DisplayName(listed[m]), name)].ID
  ELSE ""

\* the listing's error taken for "no album of that name"
AddAssetToAlbumAfterList_CreatesOnListError(f, data, err) ==
  LET listed == ListAlbums(data, err)
      albumID == MatchAlbumID(listed.albums, cfg.AlbumName)
      g == [f EXCEPT !.listed = listed.albums]
  IN IF albumID = ""
     THEN EnterFallback(g, "CreateAlbum", "POST", <<"/albums">>,
                        [albumName |-> cfg.AlbumName, ids |-> <<>>])
     ELSE AddAssetsToAlbum(g, albumID, <<g.assetID>>)

\* AddAssetToAlbum after client.ListAlbums returned
AddAssetToAlbumAfterList(f, data, err) ==
  LET listed == ListAlbums(data, err) IN
  IF listed.err # Nil THEN Returned(f, listed.err)
  ELSE LET albumID == MatchAlbumID(listed.albums, cfg.AlbumName)
           g == [f EXCEPT !.listed = listed.albums]
       IN IF albumID = ""
          THEN EnterFallback(g, "CreateAlbum", "POST", <<"/albums">>,
                             [albumName |-> cfg.AlbumName, ids |-> <<>>])
          ELSE AddAssetsToAlbum(g, albumID, <<g.assetID>>)

\* AddAssetToAlbum after client.CreateAlbum returned
AddAssetToAlbumAfterCreate(f, data, err) ==
  LET created == CreateAlbum(data, err) IN
  IF created.err # Nil THEN Returned(f, created.err)
  ELSE AddAssetsToAlbum(f, created.album.ID, <<f.assetID>>)

\* SearchAssets, from the probe's return on
SearchAssets(data, err) ==
  IF err # Nil THEN [resp |-> NoSearchAssetsResponse, err |-> err]
  ELSE decodeSearchAssets(data)

SearchAssetsPaths == <<"/search/metadata", "/search/assets", "/search">>

\* the listAssets handler from "assets := make(...)" on, or its 502
\* the handler's answer with the page number preferred to the token
listAssetsRespond_PageNumberFirst(f, resp, err) ==
  IF err # Nil THEN Returned([f EXCEPT !.httpStatus = StatusBadGateway], err)
  ELSE Returned(
         [f EXCEPT
            !.httpStatus = StatusOK,
            !.resp = resp,
            !.emitted =
              [k \in 1..Len(resp.Assets) |->
                 [id |-> resp.Assets[k].ID,
                  thumbnailUrl |-> <<"/file/immich/">> \o resp.Assets[k].ID
                                     \o <<"?size=thumbnail">>,
                  previewUrl |-> <<"/file/immich/">> \o resp.Assets[k].ID
                                   \o <<"?size=fullsize">>]],
            !.nextPageToken =
              IF resp.NextPage > 0 THEN Itoa(resp.NextPage) ELSE resp.NextPageToken],
         Nil)

listAssetsRespond(f, resp, err) ==
  IF err # Nil THEN Returned([f EXCEPT !.httpStatus = StatusBadGateway], err)
  ELSE Returned(
         [f EXCEPT
            !.httpStatus = StatusOK,
            !.resp = resp,
            !.emitted =
              [k \in 1..Len(resp.Assets) |->
                 [id |-> resp.Assets[k].ID,
                  thumbnailUrl |-> <<"/file/immich/">> \o resp.Assets[k].ID
                                     \o <<"?size=thumbnail">>,
                  previewUrl |-> <<"/file/immich/">> \o resp.Assets[k].ID
                                   \o <<"?size=fullsize">>]],
            !.nextPageToken =
              IF resp.NextPageToken = "" /\ resp.NextPage > 0
              THEN Itoa(resp.NextPage) ELSE resp.NextPageToken],
         Nil)

\* where a returning SearchAssets goes back to
\* r, what SearchAssets returned, handed to whoever called it
Deliver(f, r) ==
  IF f.op = "listAssets" THEN listAssetsRespond(f, r.resp, r.err)
  ELSE Returned([f EXCEPT !.resp = r.resp], r.err)
AfterSearchAssets(f, data, err) == Deliver(f, SearchAssets(data, err))

\* where a returning ListAssets goes back to: its caller, or the listAssets
\* handler, which on any error turns to SearchAssets
AfterListAssets(f, resp, err) ==
  IF f.op = "listAssets"
  THEN IF err # Nil
       THEN EnterFallback(f, "SearchAssets", "POST", SearchAssetsPaths, NoPayload)
       ELSE listAssetsRespond(f, resp, Nil)
  ELSE Returned([f EXCEPT !.resp = resp], err)

\* the listAlbums handler after client.ListAlbums returned r
listAlbumsRespond(f, r) ==
  IF r.err # Nil THEN Returned([f EXCEPT !.httpStatus = StatusBadGateway], r.err)
  ELSE Returned([f EXCEPT !.httpStatus = StatusOK, !.listed = r.albums], Nil)

\* where a returning doJSONWithFallback goes back to
AfterFallback(f, data, err) ==
  CASE f.site = "ListAlbums" -> AddAssetToAlbumAfterList(f, data, err)
    [] f.site = "listAlbums" -> listAlbumsRespond(f, ListAlbums(data, err))
    [] f.site = "CreateAlbum" -> AddAssetToAlbumAfterCreate(f, data, err)
    [] f.site = "AddAssetsToAlbum.PUT" -> AddAssetsToAlbumAfterPut(f, data, err)
    [] f.site = "AddAssetsToAlbum.POST" -> AddAssetsToAlbumAfterPost(f, data, err)
    [] f.site = "SearchAssets" -> AfterSearchAssets(f, data, err)
    [] OTHER -> Returned([f EXCEPT !.data = data], err)

\* doJSONWithFallback with nothing to loop over: "return nil, lastErr"
EmptyFallback(g) == AfterFallback(g, NoData, g.lastErr)

\* AddAssetToAlbum up to its first request
AddAssetToAlbum(f, c, assetID) ==
  IF assetID = <<>> THEN Returned(f, Nil)
  ELSE LET trimmed == TrimLeftSlash(assetID) IN
       IF ~uuidPatternMatchString(trimmed) THEN Returned(f, Nil)
       ELSE IF c.BaseURL = "" \/ c.APIKey = "" THEN Returned(f, Nil)
       ELSE IF c.AlbumID = "" /\ c.AlbumName = "" THEN Returned(f, Nil)
       ELSE IF ~NewClientOk(c) THEN Returned(f, DecodeError("url"))
       ELSE IF c.AlbumID = ""
       THEN EnterFallback([f EXCEPT !.assetID = trimmed], "ListAlbums", "GET",
                          <<"/albums", "/album">>, NoPayload)
       ELSE AddAssetsToAlbum([f EXCEPT !.assetID = trimmed], c.AlbumID, <<trimmed>>)

----------------------------------------------------------------------------
(* ListAssets and GetAssetInfo: probing loops of their own. *)

ListAssetsPaths == <<"/assets", "/asset", "/assets/owned", "/assets/all">>

\* the queryVariants of ListAssets, page and size already raised to 1
queryVariants(page, size, order) ==
  LET skip == (page - 1) * size IN
  << withQuery(order, [page |-> page, size |-> size], NoValues),
     withQuery(order, [skip |-> skip, take |-> size], NoValues),
     withQuery("", [page |-> page, size |-> size], NoValues),
     withQuery("", [skip |-> skip, take |-> size], NoValues) >>

\* one iteration of the inner loop of ListAssets, r being what
\* doJSONWithQuery returned
\* the loop going on to the next candidate when a 2xx body does not decode
ListAssetsIteration_DecodeFallsThrough(f, r) ==
  LET g == [f EXCEPT !.outerErr = IF r.err = Nil THEN decodeSearchAssets(r.data).err
                                  ELSE r.err] IN
  IF r.err = Nil /\ g.outerErr = Nil
  THEN AfterListAssets(f, decodeSearchAssets(r.data).resp, Nil)
  ELSE IF r.err # Nil /\ ~isRetryableImmichPath(r.err)
  THEN AfterListAssets(g, NoSearchAssetsResponse, r.err)
  ELSE IF f.qi < Len(queryVariants(f.page, f.size, f.order))
  THEN [g EXCEPT !.qi = f.qi + 1]
  ELSE IF f.pi < Len(ListAssetsPaths) THEN [g EXCEPT !.pi = f.pi + 1, !.qi = 1]
  ELSE AfterListAssets(g, NoSearchAssetsResponse, g.outerErr)

ListAssetsIteration(f, r) ==
  IF r.err = Nil
  THEN LET dec == decodeSearchAssets(r.data)
       IN AfterListAssets(f, dec.resp, dec.err)
  ELSE LET g == [f EXCEPT !.outerErr = r.err] IN
       IF ~isRetryableImmichPath(r.err) THEN AfterListAssets(g, NoSearchAssetsResponse, r.err)
       ELSE IF f.qi < Len(queryVariants(f.page, f.size, f.order))
       THEN [g EXCEPT !.qi = f.qi + 1]
       ELSE IF f.pi < Len(ListAssetsPaths) THEN [g EXCEPT !.pi = f.pi + 1, !.qi = 1]
       ELSE AfterListAssets(g, NoSearchAssetsResponse, g.outerErr)

GetAssetInfoPaths(assetID) ==
  << "/assets/" \o Text(assetID), "/asset/" \o Text(assetID),
     "/assets/" \o Text(assetID) \o "/info" >>

\* json.NewDecoder(resp.Body).Decode(&info) succeeds
AssetInfoOk(j) ==
  /\ j.t \in {"obj", "null"}
  /\ \A k \in {"id", "originalFileName", "originalMimeType"} : StrFieldOk(j, k)
  /\ (HasKey(j, "fileSizeInByte") => Member(j, "fileSizeInByte").t \in {"num", "null"})

\* one iteration of the loop of GetAssetInfo, resp being the upstream's answer
GetAssetInfoIteration(f, resp) ==
  IF resp.StatusCode = TransportFailure
  THEN Returned(f, TransportError(resp.Message))
  ELSE IF resp.StatusCode < 200 \/ resp.StatusCode >= 300
  THEN LET g == [f EXCEPT !.lastErr = AssetInfoError(resp.StatusCode)] IN
       IF /\ resp.StatusCode # StatusNotFound
          /\ resp.StatusCode # StatusMethodNotAllowed
       THEN Returned(g, g.lastErr)
       ELSE IF f.i < Len(f.paths) THEN [g EXCEPT !.i = f.i + 1]
       ELSE Returned(g, g.lastErr)
  ELSE IF ~AssetInfoOk(resp.body) THEN Returned(f, DecodeError("json"))
  ELSE Returned([f EXCEPT !.info = [ID |-> StrField(resp.body, "id", <<>>)]], Nil)

----------------------------------------------------------------------------
(* Inputs. *)

Seqs(S, n) == UNION {[1..m -> S] : m \in 0..n}

\* candidate lists handed to a direct doJSONWithFallback call
CandLists == Seqs({"/albums", "/album"}, MaxCand)

\* asset identifiers handed to AddAssetToAlbum and GetAssetInfo
AssetIDInputs == {<<>>, <<"/">>, <<"x">>, <<"U1">>, <<"/", "U1">>, <<"x", "U2">>}

\* album identifiers and asset lists handed to a direct AddAssetsToAlbum call
AlbumIDInputs == {"", "a1", "a9"}
AssetIDLists == {<<>>, <<<<"U1">>>>, <<<<"U1">>, <<"U2">>>>}

\* the pageSize and pageToken query parameters handed to the listAssets
\* handler, and strconv.Atoi on them
PageSizeParams == {"", "2"}
PageTokenParams == {"", "2", "x"}
Atoi(raw) ==
  CASE raw = "0" -> [n |-> 0, ok |-> TRUE]
    [] raw = "2" -> [n |-> 2, ok |-> TRUE]
    [] raw = "3" -> [n |-> 3, ok |-> TRUE]
    [] raw = "60" -> [n |-> 60, ok |-> TRUE]
    [] OTHER -> [n |-> 0, ok |-> FALSE]
DefaultPageSize == 60

Pages == {0, 2}
Sizes == {0, 2}
Orders == {"", "desc"}

Configs ==
  [BaseURL : {"", "https://photos.example", ":bad"}, APIKey : {"", "key"},
   AlbumName : {"", "Memos"}, AlbumID : {"", "a1"}]

Enabled(c) == c.BaseURL # "" /\ c.APIKey # ""

\* the album stores the upstream may start with
InitStores ==
  { <<>>,
    << [id |-> "a1", name |-> "Trips", assets |-> {}, by |-> <<0, 0, <<>>>>],
       [id |-> "a2", name |-> "MEMOS", assets |-> {}, by |-> <<0, 0, <<>>>>] >> }

NoAnswer == [some |-> FALSE, StatusCode |-> 0, Message |-> "", body |-> NoData]
Answer(resp) ==
  [some |-> TRUE, StatusCode |-> resp.StatusCode, Message |-> resp.Message,
   body |-> resp.body]

----------------------------------------------------------------------------
(* The state machine. *)

InitWith(budget) ==
  /\ cfg \in Configs
  /\ albums \in InitStores
  /\ st = [p \in Procs |-> IdleFrame]
  /\ log = [p \in Procs |-> <<>>]
  /\ last = [p \in Procs |-> NoAnswer]
  /\ calls = budget
  /\ ctxDone = [p \in Procs |-> FALSE]

Init == InitWith([p \in Procs |-> IF p = 1 THEN MaxCalls ELSE 0])

InitConcurrent == InitWith([p \in Procs |-> MaxConcurrentCalls])

CanCall(p) == st[p].pc \in {"idle", "returned"} /\ calls[p] > 0

\* p starts a call whose frame, up to the first request, is f
Start(p, f) ==
  /\ st' = [st EXCEPT ![p] = f]
  /\ log' = [log EXCEPT ![p] = <<>>]
  /\ last' = [last EXCEPT ![p] = NoAnswer]
  /\ calls' = [calls EXCEPT ![p] = @ - 1]
  /\ ctxDone' = [ctxDone EXCEPT ![p] = FALSE]
  /\ UNCHANGED <<cfg, albums>>

\* the upstream answers p's request req; next(resp) is p's frame after it
Exchange(p, req, next(_)) ==
  /\ IF ctxDone[p]
     THEN \E resp \in {Canceled(req)} :
            /\ st' = [st EXCEPT ![p] = next(resp)]
            /\ albums' = albums
            /\ log' = [log EXCEPT ![p] =
                         Append(@, [Entry(req, TransportFailure) EXCEPT !.sent = FALSE])]
            /\ last' = [last EXCEPT ![p] = Answer(resp)]
     ELSE \E code \in Outcomes :
            /\ CanAnswer(req, code)
            /\ \E k \in 1..(IF code = StatusOK THEN Shapes(req) ELSE 1) :
                 \E resp \in {Upstream(req, code, k)} :
                   /\ st' = [st EXCEPT ![p] = next(resp)]
                   /\ albums' = resp.albums
                   /\ log' = [log EXCEPT ![p] = Append(@, Entry(req, code))]
                   /\ last' = [last EXCEPT ![p] = Answer(resp)]
  /\ UNCHANGED <<cfg, calls, ctxDone>>

\* the caller cancels the context of its call while the call is running
Cancel(p) ==
  /\ st[p].pc \notin {"idle", "returned"}
  /\ ~ctxDone[p]
  /\ ctxDone' = [ctxDone EXCEPT ![p] = TRUE]
  /\ UNCHANGED <<cfg, albums, st, log, last, calls>>

CallDoJSONWithFallback(p) ==
  /\ CanCall(p)
  /\ Enabled(cfg) /\ NewClientOk(cfg)
  /\ \E paths \in CandLists :
       LET g == EnterFallback([IdleFrame EXCEPT !.op = "doJSONWithFallback"],
                              "direct", "GET", paths, NoPayload)
       IN Start(p, IF Len(paths) = 0 THEN EmptyFallback(g) ELSE g)

DoJSONWithFallbackStep(p) ==
  /\ st[p].pc = "doJSONWithFallback"
  /\ LET f == st[p]
         next(resp) == FallbackIteration(f, doJSON(resp))
     IN Exchange(p, [method |-> f.method, path |-> f.paths[f.i], query |-> "",
                     payload |-> f.payload, from |-> <<p, calls[p], st[p].arg>>], next)

CallAddAssetToAlbum(p) ==
  /\ CanCall(p)
  /\ \E assetID \in AssetIDInputs :
       Start(p, AddAssetToAlbum([IdleFrame EXCEPT !.op = "AddAssetToAlbum",
                                                  !.arg = assetID],
                                cfg, assetID))

CallAddAssetsToAlbum(p) ==
  /\ CanCall(p)
  /\ Enabled(cfg) /\ NewClientOk(cfg)
  /\ \E albumID \in AlbumIDInputs, assetIDs \in AssetIDLists :
       Start(p, AddAssetsToAlbum([IdleFrame EXCEPT !.op = "AddAssetsToAlbum",
                                                   !.arg = assetIDs,
                                                   !.albumID = albumID],
                                 albumID, assetIDs))

CallListAssets(p) ==
  /\ CanCall(p)
  /\ Enabled(cfg) /\ NewClientOk(cfg)
  /\ \E page \in Pages, size \in Sizes, order \in Orders :
       Start(p, [IdleFrame EXCEPT !.op = "ListAssets", !.pc = "ListAssets",
                                  !.page = IF page < 1 THEN 1 ELSE page,
                                  !.size = IF size < 1 THEN 1 ELSE size,
                                  !.order = order, !.pi = 1, !.qi = 1])

ListAssetsStep(p) ==
  /\ st[p].pc = "ListAssets"
  /\ LET f == st[p]
         next(resp) == ListAssetsIteration(f, doJSONWithQuery(resp))
     IN Exchange(p, [method |-> "GET", path |-> ListAssetsPaths[f.pi],
                     query |-> QueryString(queryVariants(f.page, f.size, f.order)[f.qi]),
                     payload |-> NoPayload, from |-> <<p, calls[p], st[p].arg>>], next)

CallSearchAssets(p) ==
  /\ CanCall(p)
  /\ Enabled(cfg) /\ NewClientOk(cfg)
  /\ Start(p, EnterFallback([IdleFrame EXCEPT !.op = "SearchAssets"],
                            "SearchAssets", "POST", SearchAssetsPaths, NoPayload))

\* http.Header.Get: the first value under the name, "" if there is none
Get(h, key) == IF key \in DOMAIN h /\ h[key] # <<>> THEN h[key][1] ELSE ""

\* http.Header.Set on a header that does not hold the name yet
Set(h, key, value) ==
  [k \in DOMAIN h \cup {key} |-> IF k = key THEN <<value>> ELSE h[k]]

\* the Range and If-Range headers FetchAsset puts on its request
ForwardedHeaders(requestHeaders) ==
  LET withRange == IF Get(requestHeaders, "Range") # ""
                   THEN Set(NoHeader, "Range", Get(requestHeaders, "Range"))
                   ELSE NoHeader
  IN IF Get(requestHeaders, "If-Range") # ""
     THEN Set(withRange, "If-Range", Get(requestHeaders, "If-Range"))
     ELSE withRange

\* FetchAsset forwarding the Range header only
FetchAsset_RangeOnly(f, assetID, size, download, requestHeaders) ==
  [f EXCEPT !.op = "FetchAsset", !.pc = "FetchAsset",
            !.assetID = assetID, !.requestHeaders = requestHeaders,
            !.paths = <<IF download THEN "/assets/" \o Text(assetID) \o "/original"
                        ELSE "/assets/" \o Text(assetID) \o "/thumbnail">>,
            !.order = IF ~download /\ size # ""
                      THEN QueryString([k \in {"size"} |-> size]) ELSE "",
            !.header = IF Get(requestHeaders, "Range") # ""
                       THEN Set(NoHeader, "Range", Get(requestHeaders, "Range"))
                       ELSE NoHeader]

\* FetchAsset up to c.httpClient.Do(req): the path in f.paths, the query
\* string in f.order, the forwarded headers in f.header
FetchAsset(f, assetID, size, download, requestHeaders) ==
  [f EXCEPT !.op = "FetchAsset", !.pc = "FetchAsset",
            !.assetID = assetID, !.requestHeaders = requestHeaders,
            !.paths = <<IF download THEN "/assets/" \o Text(assetID) \o "/original"
                        ELSE "/assets/" \o Text(assetID) \o "/thumbnail">>,
            !.order = IF ~download /\ size # ""
                      THEN QueryString([k \in {"size"} |-> size]) ELSE "",
            !.header = ForwardedHeaders(requestHeaders)]

\* FetchAsset returns what c.httpClient.Do returned: the response whatever
\* its status, or the error of the transport
FetchAssetReturn(f, resp) ==
  IF resp.StatusCode = TransportFailure
  THEN Returned(f, TransportError(resp.Message))
  ELSE Returned([f EXCEPT !.httpStatus = resp.StatusCode, !.data = resp.body], Nil)

\* the headers of the requests FetchAsset is called for
RequestHeaders ==
  {NoHeader}
    \cup {[k \in {"Range"} |-> <<v>>] : v \in {"bytes=0-99", ""}}
    \cup {[k \in {"If-Range"} |-> <<"etag">>]}
    \cup {[k \in {"Range", "If-Range"} |-> IF k = "Range" THEN <<"bytes=0-99">>
                                             ELSE <<"etag">>]}

CallFetchAsset(p) ==
  /\ CanCall(p)
  /\ Enabled(cfg) /\ NewClientOk(cfg)
  /\ \E size \in {"", "thumbnail"}, download \in BOOLEAN,
        requestHeaders \in RequestHeaders :
       Start(p, FetchAsset(IdleFrame, <<"U1">>, size, download, requestHeaders))

FetchAssetStep(p) ==
  /\ st[p].pc = "FetchAsset"
  /\ LET f == st[p]
         next(resp) == FetchAssetReturn(f, resp)
     IN Exchange(p, [method |-> "GET", path |-> f.paths[1], query |-> f.order,
                     payload |-> NoPayload, from |-> <<p, calls[p], st[p].arg>>], next)

\* what the bearer token and the refresh cookie of a request turn out to be
CredentialStates == {"none", "invalid", "valid"}
Credentials == CredentialStates \X CredentialStates
SignedIn == {<<"valid", "none">>}

\* getCurrentUser: whether there is a user (TRUE) or nil; it returns no error
getCurrentUser(bearer, cookie) == bearer = "valid" \/ cookie = "valid"

\* LoadConfig fails: both values are set and url.Parse rejects the base URL
LoadConfigFails(c) == c.BaseURL # "" /\ c.APIKey # "" /\ c.BaseURL = ":bad"

\* echo.NewHTTPError(code, message)
HTTPError(code, message) ==
  [kind |-> "echo.HTTPError", StatusCode |-> code, Message |-> message]

\* a handler gives up with an HTTP error before it has a client
Refuse(f, code, message) ==
  Returned([f EXCEPT !.httpStatus = code], HTTPError(code, message))

\* a handler that does not look at the current user
HandlerEnter_NoUserCheck(f, c, g) ==
  IF LoadConfigFails(c)
  THEN Refuse(f, StatusInternalServerError, "failed to load immich config")
  ELSE IF ~Enabled(c)
  THEN Refuse(f, StatusBadRequest, "immich is not configured")
  ELSE IF ~NewClientOk(c)
  THEN Refuse(f, StatusInternalServerError, "failed to initialize immich client")
  ELSE g

\* a handler up to the client it works with: g is the frame it goes on with
HandlerEnter(f, c, g) ==
  IF ~getCurrentUser(f.bearer, f.cookie)
  THEN Refuse(f, StatusUnauthorized, "unauthorized access")
  ELSE IF LoadConfigFails(c)
  THEN Refuse(f, StatusInternalServerError, "failed to load immich config")
  ELSE IF ~Enabled(c)
  THEN Refuse(f, StatusBadRequest, "immich is not configured")
  ELSE IF ~NewClientOk(c)
  THEN Refuse(f, StatusInternalServerError, "failed to initialize immich client")
  ELSE g

\* the listAlbums handler up to its first upstream request
listAlbums(f, c) ==
  HandlerEnter([f EXCEPT !.op = "listAlbums"], c,
               EnterFallback([f EXCEPT !.op = "listAlbums"], "listAlbums", "GET",
                             <<"/albums", "/album">>, NoPayload))

\* a request to the listAlbums handler, its credentials among creds
ServeListAlbums(p, creds) ==
  /\ CanCall(p)
  /\ \E cred \in creds :
       Start(p, listAlbums([IdleFrame EXCEPT !.bearer = cred[1], !.cookie = cred[2]],
                           cfg))

\* the listAssets handler reading its page parameters, ListAssets entered
listAssetsPaging(f, rawSize, rawToken) ==
  LET pageSize == IF rawSize # "" /\ Atoi(rawSize).ok /\ Atoi(rawSize).n > 0
                  THEN Atoi(rawSize).n ELSE DefaultPageSize
      page == IF rawToken # "" /\ Atoi(rawToken).ok /\ Atoi(rawToken).n > 0
              THEN Atoi(rawToken).n ELSE 1
  IN [f EXCEPT !.pc = "ListAssets",
               !.page = IF page < 1 THEN 1 ELSE page,
               !.size = IF pageSize < 1 THEN 1 ELSE pageSize,
               !.order = "desc", !.pi = 1, !.qi = 1]

\* the listAssets handler up to its first upstream request
listAssets(f, c, rawSize, rawToken) ==
  HandlerEnter([f EXCEPT !.op = "listAssets", !.pageToken = rawToken], c,
               listAssetsPaging([f EXCEPT !.op = "listAssets", !.pageToken = rawToken],
                                rawSize, rawToken))

\* a request to the listAssets handler, its credentials among creds
ServeListAssets(p, creds) ==
  /\ CanCall(p)
  /\ \E cred \in creds, rawSize \in PageSizeParams, rawToken \in PageTokenParams :
       Start(p, listAssets([IdleFrame EXCEPT !.bearer = cred[1], !.cookie = cred[2]],
                           cfg, rawSize, rawToken))

\* the picker's page size
PAGE_SIZE == "60"

\* the picker's handleLoadMore: the nextPageToken of the handler's last
\* answer goes back to the handler as pageToken
LoadMore(p) ==
  /\ CanCall(p)
  /\ st[p].op = "listAssets" /\ st[p].pc = "returned"
  /\ st[p].httpStatus = StatusOK
  /\ st[p].nextPageToken # ""
  /\ Start(p, listAssets([IdleFrame EXCEPT !.bearer = st[p].bearer,
                                           !.cookie = st[p].cookie,
                                           !.loadMore = TRUE],
                         cfg, PAGE_SIZE, st[p].nextPageToken))

CallGetAssetInfo(p) ==
  /\ CanCall(p)
  /\ Enabled(cfg) /\ NewClientOk(cfg)
  /\ \E assetID \in {<<"U1">>, <<"/", "U1">>} :
       Start(p, [IdleFrame EXCEPT !.op = "GetAssetInfo", !.pc = "GetAssetInfo",
                                  !.assetID = assetID,
                                  !.paths = GetAssetInfoPaths(assetID), !.i = 1])

GetAssetInfoStep(p) ==
  /\ st[p].pc = "GetAssetInfo"
  /\ LET f == st[p]
         next(resp) == GetAssetInfoIteration(f, resp)
     IN Exchange(p, [method |-> "GET", path |-> f.paths[f.i], query |-> "",
                     payload |-> NoPayload, from |-> <<p, calls[p], st[p].arg>>], next)

\* one caller, every operation of the client
Next ==
  \/ Cancel(1)
  \/ CallDoJSONWithFallback(1)
  \/ DoJSONWithFallbackStep(1)
  \/ CallAddAssetToAlbum(1)
  \/ CallAddAssetsToAlbum(1)
  \/ CallListAssets(1)
  \/ ListAssetsStep(1)
  \/ CallGetAssetInfo(1)
  \/ GetAssetInfoStep(1)

Spec == Init /\ [][Next]_vars

\* two callers of AddAssetToAlbum, their requests interleaved
NextConcurrent ==
  \E p \in Procs : CallAddAssetToAlbum(p) \/ DoJSONWithFallbackStep(p)

SpecConcurrent == InitConcurrent /\ [][NextConcurrent]_vars

\* one caller of the asset-listing side: ListAssets, SearchAssets and the
\* listAssets handler over them, with album binding left unconfigured
InitAssets ==
  /\ Init
  /\ Enabled(cfg) /\ NewClientOk(cfg)
  /\ cfg.AlbumName = "" /\ cfg.AlbumID = ""
  /\ albums = <<>>

NextAssets ==
  \/ Cancel(1)
  \/ CallListAssets(1)
  \/ ListAssetsStep(1)
  \/ CallSearchAssets(1)
  \/ DoJSONWithFallbackStep(1)
  \/ ServeListAssets(1, SignedIn)
  \/ LoadMore(1)
  \/ CallFetchAsset(1)
  \/ FetchAssetStep(1)

SpecAssets == InitAssets /\ [][NextAssets]_vars

\* the two handlers of the router under every environment and every
\* combination of credentials; a handler keeps nothing from one request to
\* the next, so a behaviour holds one request
InitHandlers ==
  /\ InitWith([p \in Procs |-> IF p = 1 THEN 1 ELSE 0])
  /\ cfg.AlbumName = "" /\ cfg.AlbumID = ""

NextHandlers ==
  \/ Cancel(1)
  \/ ServeListAlbums(1, Credentials)
  \/ ServeListAssets(1, Credentials)
  \/ ListAssetsStep(1)
  \/ DoJSONWithFallbackStep(1)

SpecHandlers == InitHandlers /\ [][NextHandlers]_vars

----------------------------------------------------------------------------
(* References and links.  A reference or a link is a token sequence: on    *)
(* top of "/", "x" and the UUID blocks its tokens are "immich:" (the       *)
(* ReferencePrefix), "https:" (a scheme with its colon), ":" (a bare       *)
(* colon), "?", "&", "=", " " (white space) and the host names "h"         *)
(* (photos.example), "H" (PHOTOS.EXAMPLE) and "o" (other.example).  A UUID *)
(* block starts with a digit, as 550e8400-e29b-41d4-a716-446655440000.     *)

ReferencePrefix == <<"immich:">>

\* strings.HasPrefix, strings.TrimPrefix
HasPrefix(s, prefix) ==
  Len(s) >= Len(prefix) /\ SubSeq(s, 1, Len(prefix)) = prefix
TrimPrefix(s, prefix) ==
  IF HasPrefix(s, prefix) THEN SubSeq(s, Len(prefix) + 1, Len(s)) ELSE s

\* strings.TrimSpace
RECURSIVE TrimSpace(_)
TrimSpace(s) ==
  IF s # <<>> /\ Head(s) = " " THEN TrimSpace(Tail(s))
  ELSE IF s # <<>> /\ s[Len(s)] = " " THEN TrimSpace(SubSeq(s, 1, Len(s) - 1))
  ELSE s

\* strings.Index and strings.LastIndex for the tokens of a set: 0 is "none"
IndexAny(s, set) ==
  IF \E k \in 1..Len(s) : s[k] \in set
  THEN CHOOSE k \in 1..Len(s) : s[k] \in set /\ \A m \in 1..(k - 1) : s[m] \notin set
  ELSE 0
LastIndexAny(s, set) ==
  IF \E k \in 1..Len(s) : s[k] \in set
  THEN CHOOSE k \in 1..Len(s) : s[k] \in set /\ \A m \in (k + 1)..Len(s) : s[m] \notin set
  ELSE 0

NormalizeReference(assetID) == ReferencePrefix \o assetID

\* the decoder trimming leading slashes as ExtractAssetIDFromLink does
ParseReference_TrimsSlashes(reference) ==
  IF HasPrefix(reference, ReferencePrefix)
  THEN [id |-> TrimLeftSlash(TrimPrefix(reference, ReferencePrefix)),
        ok |-> TrimLeftSlash(TrimPrefix(reference, ReferencePrefix)) # <<>>]
  ELSE [id |-> <<>>, ok |-> FALSE]

ParseReference(reference) ==
  IF HasPrefix(reference, ReferencePrefix)
  THEN [id |-> TrimPrefix(reference, ReferencePrefix),
        ok |-> TrimPrefix(reference, ReferencePrefix) # <<>>]
  ELSE [id |-> <<>>, ok |-> FALSE]

\* net/url: the characters of the tokens
Letters == {"x", "h", "H", "o"}
ColonTokens == {":", "https:", "immich:"}

NoURL == [err |-> TRUE, Scheme |-> <<>>, Host |-> <<>>, Path |-> <<>>, RawQuery |-> <<>>]

\* url.getScheme: letters go on, a digit in front ends the search, a colon in
\* front is an error, a colon later ends the scheme, anything else means
\* there is no scheme
RECURSIVE getScheme(_, _)
getScheme(rawURL, i) ==
  IF i > Len(rawURL) THEN [err |-> FALSE, scheme |-> <<>>, rest |-> rawURL]
  ELSE IF rawURL[i] \in Letters THEN getScheme(rawURL, i + 1)
  ELSE IF rawURL[i] \in UuidTokens
  THEN IF i = 1 THEN [err |-> FALSE, scheme |-> <<>>, rest |-> rawURL]
       ELSE getScheme(rawURL, i + 1)
  ELSE IF rawURL[i] = ":"
  THEN IF i = 1 THEN [err |-> TRUE, scheme |-> <<>>, rest |-> <<>>]
       ELSE [err |-> FALSE, scheme |-> SubSeq(rawURL, 1, i - 1),
             rest |-> SubSeq(rawURL, i + 1, Len(rawURL))]
  ELSE IF rawURL[i] \in ColonTokens
  THEN [err |-> FALSE, scheme |-> SubSeq(rawURL, 1, i),
        rest |-> SubSeq(rawURL, i + 1, Len(rawURL))]
  ELSE [err |-> FALSE, scheme |-> <<>>, rest |-> rawURL]

\* url.parseHost: a colon must start a valid (here: empty) port, and white
\* space is no character of a host name
parseHostOk(authority) ==
  /\ LastIndexAny(authority, ColonTokens) \in {0, Len(authority)}
  /\ \A k \in 1..Len(authority) : authority[k] # " "

\* url.parse once the scheme is split off and the query is cut at the "?"
parseRest(scheme, rest, rawQuery) ==
  IF ~HasPrefix(rest, <<"/">>) /\ scheme # <<>>
  THEN \* an opaque URL
       [err |-> FALSE, Scheme |-> scheme, Host |-> <<>>, Path |-> <<>>,
        RawQuery |-> rawQuery]
  ELSE IF /\ ~HasPrefix(rest, <<"/">>)
          /\ \E k \in 1..Len(rest) :
               /\ rest[k] \in ColonTokens
               /\ \A m \in 1..(k - 1) : rest[m] # "/"
  THEN \* first path segment in URL cannot contain colon
       NoURL
  ELSE IF /\ (scheme # <<>> \/ ~HasPrefix(rest, <<"/", "/", "/">>))
          /\ HasPrefix(rest, <<"/", "/">>)
  THEN LET after == SubSeq(rest, 3, Len(rest))
           slash == IndexAny(after, {"/"})
           authority == IF slash = 0 THEN after ELSE SubSeq(after, 1, slash - 1)
           path == IF slash = 0 THEN <<>> ELSE SubSeq(after, slash, Len(after))
       IN IF ~parseHostOk(authority) THEN NoURL
          ELSE [err |-> FALSE, Scheme |-> scheme, Host |-> authority,
                Path |-> path, RawQuery |-> rawQuery]
  ELSE [err |-> FALSE, Scheme |-> scheme, Host |-> <<>>, Path |-> rest,
        RawQuery |-> rawQuery]

\* url.Parse
urlParseFrom(g) ==
  IF g.err THEN NoURL
  ELSE IF IndexAny(g.rest, {"?"}) = 0 THEN parseRest(g.scheme, g.rest, <<>>)
  ELSE parseRest(g.scheme, SubSeq(g.rest, 1, IndexAny(g.rest, {"?"}) - 1),
                 SubSeq(g.rest, IndexAny(g.rest, {"?"}) + 1, Len(g.rest)))
urlParse(rawURL) == urlParseFrom(getScheme(rawURL, 1))

\* strings.Split
RECURSIVE Split(_, _)
Split(s, sep) ==
  IF IndexAny(s, {sep}) = 0 THEN <<s>>
  ELSE <<SubSeq(s, 1, IndexAny(s, {sep}) - 1)>>
         \o Split(SubSeq(s, IndexAny(s, {sep}) + 1, Len(s)), sep)

\* strings.Cut(pair, "="): the key and the value of a query pair
PairKey(pair) ==
  IF IndexAny(pair, {"="}) = 0 THEN pair
  ELSE SubSeq(pair, 1, IndexAny(pair, {"="}) - 1)
PairValue(pair) ==
  IF IndexAny(pair, {"="}) = 0 THEN <<>>
  ELSE SubSeq(pair, IndexAny(pair, {"="}) + 1, Len(pair))

\* URL.Query: url.Values, a map from each key to its values in the order of
\* the text; empty pairs are skipped
QueryOfPairs(pairs) ==
  [key \in {PairKey(pairs[n]) : n \in {m \in 1..Len(pairs) : pairs[m] # <<>>}} |->
     LET mine == SelectSeq(pairs, LAMBDA pair : pair # <<>> /\ PairKey(pair) = key)
     IN [n \in 1..Len(mine) |-> PairValue(mine[n])]]
Query(u) == QueryOfPairs(Split(u.RawQuery, "&"))

\* strings.EqualFold on host names
FoldHost(host) == [k \in 1..Len(host) |-> IF host[k] = "H" THEN "h" ELSE host[k]]
EqualFoldHost(a, b) == FoldHost(a) = FoldHost(b)

NotFound == [id |-> <<>>, ok |-> FALSE]
Found(match) == [id |-> match, ok |-> TRUE]

\* the first value of values that holds a UUID
FirstMatching(values) ==
  values[CHOOSE n \in 1..Len(values) :
           /\ uuidPatternMatchString(values[n])
           /\ \A m \in 1..(n - 1) : ~uuidPatternMatchString(values[m])]

\* ExtractAssetIDFromLink from the search of the path on.  The loop over
\* parsed.Query() ranges over a Go map, whose iteration order is not fixed:
\* every key with a matching value may be the one the loop meets first.
ExtractFromParsed(parsed, q) ==
  IF uuidPatternFindString(parsed.Path) # <<>>
  THEN {Found(uuidPatternFindString(parsed.Path))}
  ELSE IF \E key \in DOMAIN q : \E n \in 1..Len(q[key]) : uuidPatternMatchString(q[key][n])
  THEN {Found(uuidPatternFindString(FirstMatching(q[key]))) :
          key \in {k2 \in DOMAIN q : \E n \in 1..Len(q[k2]) : uuidPatternMatchString(q[k2][n])}}
  ELSE {NotFound}

\* the generic-URL part with the comparison of the hosts left out
ExtractFromURL_IgnoresBase(parsed, c) ==
  IF parsed.err \/ parsed.Host = <<>> THEN {NotFound}
  ELSE ExtractFromParsed(parsed, Query(parsed))

\* ExtractAssetIDFromLink from url.Parse(link) on
ExtractFromURL(parsed, c) ==
  IF parsed.err \/ parsed.Host = <<>> THEN {NotFound}
  ELSE IF /\ c.BaseURL # <<>>
          /\ \/ urlParse(c.BaseURL).err
             \/ urlParse(c.BaseURL).Host = <<>>
             \/ ~EqualFoldHost(parsed.Host, urlParse(c.BaseURL).Host)
  THEN {NotFound}
  ELSE ExtractFromParsed(parsed, Query(parsed))

\* ExtractAssetIDFromLink once the link is trimmed
ExtractFromTrimmed(link, c) ==
  IF link = <<>> THEN {NotFound}
  ELSE IF HasPrefix(link, ReferencePrefix)
  THEN {[id |-> TrimLeftSlash(TrimPrefix(link, ReferencePrefix)),
         ok |-> TrimLeftSlash(TrimPrefix(link, ReferencePrefix)) # <<>>]}
  ELSE IF HasPrefix(link, <<"immich:", "/", "/">>)
  THEN {[id |-> TrimLeftSlash(TrimPrefix(link, <<"immich:", "/", "/">>)),
         ok |-> TrimLeftSlash(TrimPrefix(link, <<"immich:", "/", "/">>)) # <<>>]}
  ELSE ExtractFromURL(urlParse(link), c)

\* the outcomes of ExtractAssetIDFromLink(link, c)
ExtractAssetIDFromLink(link, c) == ExtractFromTrimmed(TrimSpace(link), c)

----------------------------------------------------------------------------
(* The pure functions of the adapter, each applied to inputs drawn from    *)
(* bounded sets: a behaviour is one call, which returns at once with its   *)
(* arguments and its results in the frame.                                 *)

\* longest asset ID handed to NormalizeReference
MaxIdLen == 2
\* longest list of asset records in a payload
MaxRecords == 2

IdTokens == {"/", "x", "U1"}
RefIDs == UNION {[1..n -> IdTokens] : n \in 0..MaxIdLen}

\* what ParseReference is handed: encoded IDs, and strings without the prefix
ReferenceInputs ==
  {NormalizeReference(id) : id \in RefIDs}
    \cup RefIDs
    \cup {<<"x">> \o NormalizeReference(id) : id \in RefIDs}

LinkLeads == {<<>>, <<" ">>}
LinkHeads ==
  {<<>>, <<"immich:">>, <<"immich:", "/", "/">>, <<"https:", "/", "/">>,
   <<"https:">>, <<"/", "/">>, <<":">>}
LinkHosts == {<<>>, <<"h">>, <<"H">>, <<"o">>}
LinkPaths == {<<>>, <<"/", "x">>, <<"/", "x", "/", "U1">>, <<"/", "U2", "/", "U1">>}
LinkQueries ==
  {<<>>, <<"?", "x", "=", "U2">>,
   <<"?", "x", "=", "x", "&", "x", "=", "U1">>,
   <<"?", "x", "=", "U1", "&", "o", "=", "U2">>}
Links ==
  {lead \o head \o host \o path \o query \o lead :
     lead \in LinkLeads, head \in LinkHeads, host \in LinkHosts,
     path \in LinkPaths, query \in LinkQueries}

BaseURLs ==
  {<<>>, <<"https:", "/", "/", "h">>, <<"https:", "/", "/", "o">>,
   <<":", "x">>, <<"h">>}
LinkConfigs ==
  [BaseURL : BaseURLs, APIKey : {"key"}, AlbumName : {""}, AlbumID : {""}]

\* the asset records of a payload: the identifier in any of its four
\* fields, with and without leading slashes, elsewhere in the record, or
\* nowhere; the last one is no asset record
AssetRecordSeq ==
  << AssetJson1,
     AssetJson2,
     JObj(<< <<"id", JStr(<<"/">>)>>, <<"assetId", JStr(<<"x">>)>> >>),
     JObj(<< <<"id", JStr(<<>>)>>, <<"deviceAssetId", JStr(<<"x">>)>>,
             <<"uuid", JStr(<<"U1">>)>> >>),
     JObj(<< <<"uuid", JStr(<<"/", "/", "x">>)>> >>),
     JObj(<< <<"type", JStr(<<"x">>)>>, <<"ownerId", JStr(<<"x", "U2", "U1">>)>> >>),
     JObj(<< <<"id", JStr(<<"/">>)>>, <<"thumb", JStr(<<"/", "U1">>)>> >>),
     JObj(<< <<"type", JStr(<<"x">>)>> >>),
     JNull,
     JObj(<< <<"id", JNum(5)>> >>) >>
AssetRecords == {AssetRecordSeq[k] : k \in 1..Len(AssetRecordSeq)}
RecordLists == UNION {[1..n -> AssetRecords] : n \in 0..MaxRecords}

\* the envelopes a payload wraps its records in: the four the decoder
\* knows, and three it has to look through or give up on
Envelopes == 1..7
Envelope(e, records) ==
  CASE e = 1 -> JArr(records)
    [] e = 2 -> JObj(<< <<"assets", JArr(records)>>, <<"nextPage", JNum(2)>> >>)
    [] e = 3 -> JObj(<< <<"assets", JObj(<< <<"items", JArr(records)>> >>)>> >>)
    [] e = 4 -> JObj(<< <<"items", JArr(records)>>, <<"nextPageToken", JStr("t2")>> >>)
    [] e = 5 -> JObj(<< <<"assets", JStr(<<"x">>)>>, <<"items", JArr(records)>> >>)
    [] e = 6 -> JObj(<< <<"data", JArr(records)>> >>)
    [] OTHER -> JStr(<<"x">>)

InitFunctions ==
  /\ cfg \in LinkConfigs
  /\ albums = <<>>
  /\ st = [p \in Procs |-> IdleFrame]
  /\ log = [p \in Procs |-> <<>>]
  /\ last = [p \in Procs |-> NoAnswer]
  /\ calls = [p \in Procs |-> IF p = 1 THEN 1 ELSE 0]
  /\ ctxDone = [p \in Procs |-> FALSE]

CallNormalizeReference(p) ==
  /\ CanCall(p)
  /\ \E assetID \in RefIDs :
       Start(p, [IdleFrame EXCEPT !.op = "NormalizeReference", !.pc = "returned",
                                  !.arg = assetID,
                                  !.link = NormalizeReference(assetID)])

\* r is what ParseReference(reference) returned
ParseReferenceReturned(reference, r) ==
  [IdleFrame EXCEPT !.op = "ParseReference", !.pc = "returned",
                    !.link = reference, !.id = r.id, !.ok = r.ok]

CallParseReference(p) ==
  /\ CanCall(p)
  /\ \E reference \in ReferenceInputs :
       Start(p, ParseReferenceReturned(reference, ParseReference(reference)))

CallExtractAssetIDFromLink(p) ==
  /\ CanCall(p)
  /\ \E link \in Links :
       \E r \in ExtractAssetIDFromLink(link, cfg) :
         Start(p, [IdleFrame EXCEPT !.op = "ExtractAssetIDFromLink",
                                    !.pc = "returned", !.link = link,
                                    !.id = r.id, !.ok = r.ok])

\* the link of p's call evaluated once more under the same config, the
\* second result kept next to the first
ExtractAssetIDFromLinkAgain(p) ==
  /\ st[p].op = "ExtractAssetIDFromLink" /\ st[p].pc = "returned"
  /\ \E r \in ExtractAssetIDFromLink(st[p].link, cfg) :
       st' = [st EXCEPT ![p] = [@ EXCEPT !.pc = "returned twice",
                                         !.id2 = r.id, !.ok2 = r.ok]]
  /\ UNCHANGED <<cfg, albums, log, last, calls, ctxDone>>

\* r is what decodeAssetRaw(raw) returned
DecodeAssetRawReturned(raw, r) ==
  [IdleFrame EXCEPT !.op = "decodeAssetRaw", !.pc = "returned", !.data = raw,
                    !.asset = r.asset, !.err = r.err]

CallDecodeAssetRaw(p) ==
  /\ CanCall(p)
  /\ \E raw \in AssetRecords :
       Start(p, DecodeAssetRawReturned(raw, decodeAssetRaw(raw)))

\* r is what decodeSearchAssets returned for the records in envelope e
DecodeSearchAssetsReturned(e, records, r) ==
  [IdleFrame EXCEPT !.op = "decodeSearchAssets", !.pc = "returned",
                    !.i = e, !.arg = records, !.data = Envelope(e, records),
                    !.resp = r.resp, !.err = r.err]

CallDecodeSearchAssets(p) ==
  /\ CanCall(p)
  /\ \E e \in Envelopes, records \in RecordLists :
       Start(p, DecodeSearchAssetsReturned(e, records,
                                           decodeSearchAssets(Envelope(e, records))))

\* the album records of a payload: with an id and either name field, with
\* nothing in them, and one that is no album record
AlbumRecordSeq ==
  << JObj(<< <<"id", JStr("a1")>>, <<"albumName", JStr("Trips")>> >>),
     JObj(<< <<"id", JStr("a2")>>, <<"name", JStr("MEMOS")>> >>),
     JObj(<< <<"albumName", JStr("Memos")>> >>),
     JObj(<<>>),
     JObj(<< <<"id", JNum(5)>> >>) >>
AlbumRecords == {AlbumRecordSeq[k] : k \in 1..Len(AlbumRecordSeq)}
AlbumRecordLists == UNION {[1..n -> AlbumRecords] : n \in 0..MaxRecords}

\* the envelopes of an album list: the bare array, the wrapper, and two the
\* decoder does not know
AlbumListEnvelopes == 1..4
AlbumListEnvelope(e, records) ==
  CASE e = 1 -> JArr(records)
    [] e = 2 -> JObj(<< <<"albums", JArr(records)>> >>)
    [] e = 3 -> JObj(<< <<"data", JArr(records)>> >>)
    [] OTHER -> JStr("x")

\* r is what decodeAlbums returned for the records in envelope e
DecodeAlbumsReturned(e, records, r) ==
  [IdleFrame EXCEPT !.op = "decodeAlbums", !.pc = "returned", !.i = e,
                    !.arg = records, !.data = AlbumListEnvelope(e, records),
                    !.listed = r.albums, !.err = r.err]

CallDecodeAlbums(p) ==
  /\ CanCall(p)
  /\ \E e \in AlbumListEnvelopes, records \in AlbumRecordLists :
       Start(p, DecodeAlbumsReturned(e, records,
                                     decodeAlbums(AlbumListEnvelope(e, records))))

\* the payloads of a single album: a bare record, a record in the wrapper,
\* a record that carries a wrapper as well, a wrapper around null
AlbumPayloads ==
  AlbumRecords
    \cup {JObj(<< <<"album", rec>> >>) : rec \in AlbumRecords \cup {JNull}}
    \cup {JObj(<< <<"id", JStr("a1")>>, <<"album", rec>> >>) : rec \in AlbumRecords}
    \cup {JObj(<< <<"data", rec>> >>) : rec \in AlbumRecords}
    \cup {JArr(<<rec>>) : rec \in AlbumRecords}

\* r is what decodeAlbum(data) returned
DecodeAlbumReturned(data, r) ==
  [IdleFrame EXCEPT !.op = "decodeAlbum", !.pc = "returned", !.data = data,
                    !.album = r.album, !.err = r.err]

CallDecodeAlbum(p) ==
  /\ CanCall(p)
  /\ \E data \in AlbumPayloads :
       Start(p, DecodeAlbumReturned(data, decodeAlbum(data)))

NextFunctions ==
  \/ CallNormalizeReference(1)
  \/ CallParseReference(1)
  \/ CallExtractAssetIDFromLink(1)
  \/ ExtractAssetIDFromLinkAgain(1)
  \/ CallDecodeAssetRaw(1)
  \/ CallDecodeSearchAssets(1)
  \/ CallDecodeAlbums(1)
  \/ CallDecodeAlbum(1)

SpecFunctions == InitFunctions /\ [][NextFunctions]_vars

----------------------------------------------------------------------------
(* Properties. *)

LastEntry(p) == log[p][Len(log[p])]

\* C1: in a probing loop (doJSONWithFallback, also as AddAssetToAlbum uses
\* it, and the candidate loop of ListAssets) a candidate that fails with
\* anything but 404 or 405 is the last one attempted, and the call has
\* returned that candidate's error.
C1_FatalStopsProbing ==
  \A p \in Procs :
    st[p].op \in {"doJSONWithFallback", "ListAssets", "AddAssetToAlbum",
                  "AddAssetsToAlbum"} =>
      /\ \A k \in 1..(Len(log[p]) - 1) : log[p][k].class # "fatal"
      /\ (Len(log[p]) > 0 /\ LastEntry(p).class = "fatal") =>
           /\ st[p].pc = "returned"
           /\ st[p].err.kind \in {"httpStatusError", "transport"}
           /\ st[p].err.StatusCode = last[p].StatusCode
           /\ st[p].err.Message = last[p].Message

\* candidates [A -> 404 or 405, B -> 500, C]: stopped at B, C never requested
C1_Witness ==
  \E p \in Procs :
    /\ st[p].op = "doJSONWithFallback" /\ st[p].pc = "returned"
    /\ Len(st[p].paths) = 3 /\ Len(log[p]) = 2
    /\ log[p][1].class = "404or405" /\ log[p][2].class = "fatal"
    /\ st[p].err = HttpStatusError(StatusInternalServerError, "GET " \o st[p].paths[2])

\* C2: doJSONWithFallback requests its candidates in list order, each one
\* only after all before it answered 404 or 405, and on the first 2xx it
\* returns that answer's body with no error.
C2_InOrderFirstSuccess ==
  \A p \in Procs :
    st[p].op = "doJSONWithFallback" =>
      /\ Len(log[p]) <= Len(st[p].paths)
      /\ \A k \in 1..Len(log[p]) :
           log[p][k].path = st[p].paths[k] /\ log[p][k].method = st[p].method
      /\ \A k \in 1..(Len(log[p]) - 1) : log[p][k].class = "404or405"
      /\ (Len(log[p]) > 0 /\ LastEntry(p).class = "2xx") =>
           /\ st[p].pc = "returned"
           /\ st[p].err = Nil
           /\ st[p].data = last[p].body

\* the second of three candidates answered 2xx: the third is never requested
C2_Witness ==
  \E p \in Procs :
    /\ st[p].op = "doJSONWithFallback" /\ st[p].pc = "returned"
    /\ Len(st[p].paths) = 3 /\ Len(log[p]) = 2
    /\ log[p][1].class = "404or405" /\ log[p][2].class = "2xx"
    /\ st[p].err = Nil /\ st[p].data.t # "none"

\* C3: a probing call (doJSONWithFallback, GetAssetInfo) that returns after
\* nothing but 404 and 405 answers has requested every candidate once, in
\* order, and returns the error of the last one.
C3_ExhaustedReturnsLastError ==
  \A p \in Procs :
    ( /\ st[p].op \in {"doJSONWithFallback", "GetAssetInfo"}
      /\ st[p].pc = "returned"
      /\ Len(log[p]) > 0
      /\ \A k \in 1..Len(log[p]) : log[p][k].class = "404or405" ) =>
      /\ Len(log[p]) = Len(st[p].paths)
      /\ \A k \in 1..Len(log[p]) : log[p][k].path = st[p].paths[k]
      /\ st[p].err.StatusCode = last[p].StatusCode
      /\ st[p].op = "doJSONWithFallback" =>
           st[p].err = HttpStatusError(last[p].StatusCode, last[p].Message)
      /\ st[p].op = "GetAssetInfo" =>
           st[p].err = AssetInfoError(last[p].StatusCode)

\* three different answers 404, ..., 405: the 405 of the last one is returned
C3_Witness ==
  \E p \in Procs :
    /\ st[p].op = "doJSONWithFallback" /\ st[p].pc = "returned"
    /\ st[p].paths = <<"/albums", "/albums", "/album">>
    /\ Len(log[p]) = 3
    /\ \A k \in 1..3 : log[p][k].class = "404or405"
    /\ st[p].err = HttpStatusError(StatusMethodNotAllowed, "GET /album")

\* C4: a doJSONWithFallback call with an empty candidate list returns an
\* error.
C4_EmptyListIsAnError ==
  \A p \in Procs :
    ( /\ st[p].op = "doJSONWithFallback"
      /\ st[p].pc = "returned"
      /\ st[p].paths = <<>> ) => st[p].err # Nil

\* the requests of AddAssetToAlbum, as they appear on the wire
IsListEntry(e) == e.method = "GET" /\ e.path \in {"/albums", "/album"}
IsCreateEntry(e) == e.method = "POST" /\ e.path = "/albums"
IsAddEntry(e) == e.method \in {"PUT", "POST"} /\ e.path \notin {"/albums", "/album"}

NameConfigured == cfg.AlbumID = "" /\ cfg.AlbumName # ""

\* the albums of the upstream that carry the configured name
Named == {n \in 1..Len(albums) : EqualFold(albums[n].name, cfg.AlbumName)}

\* C5: two AddAssetToAlbum calls made one after the other for the same
\* asset, with an album name and no album ID configured, create at most one
\* album, and the second, made when the album of the first exists, sends no
\* create-album request.
C5_SequentialCallsOneAlbum ==
  \A p \in Procs :
    NameConfigured =>
      /\ \A m, n \in 1..Len(albums) :
           ( /\ albums[m].by[1] = p /\ albums[n].by[1] = p
             /\ albums[m].by[3] = albums[n].by[3] ) => m = n
      /\ ( /\ st[p].op = "AddAssetToAlbum"
           /\ \E n \in 1..Len(albums) :
                albums[n].by = <<p, calls[p] + 1, st[p].arg>> ) =>
           \A k \in 1..Len(log[p]) : ~IsCreateEntry(log[p][k])

\* whether a call's listing showed an album of the configured name
ListedMatch(p) ==
  \E k \in 1..Len(st[p].listed) :
    EqualFold(DisplayName(st[p].listed[k]), cfg.AlbumName)

\* C6: two concurrent AddAssetToAlbum calls that share the album name and
\* start when no album of that name exists create at most one album of that
\* name, however their requests interleave.  (Stated for the calls whose
\* listing showed no album of the name: the race between list and create.)
C6_ConcurrentCallsOneAlbum ==
  ( /\ NameConfigured
    /\ \A n \in Named : albums[n].by[1] # 0 ) =>
    \A m, n \in Named :
      ( /\ ~ListedMatch(albums[m].by[1])
        /\ ~ListedMatch(albums[n].by[1]) ) => m = n

\* C7: an AddAssetToAlbum call whose membership add the upstream accepted
\* while reporting the asset as already held by the album returns nil.
C7_AlreadyMemberSucceeds ==
  \A p \in Procs :
    ( /\ st[p].op = "AddAssetToAlbum"
      /\ Len(log[p]) > 0
      /\ IsAddEntry(LastEntry(p))
      /\ LastEntry(p).class = "2xx"
      /\ ReportsNotAdded(last[p].body) ) =>
      st[p].pc = "returned" /\ st[p].err = Nil

\* the second of two calls for the same asset: the album held it already
C7_Witness ==
  \E p \in Procs :
    /\ st[p].op = "AddAssetToAlbum" /\ st[p].pc = "returned" /\ st[p].err = Nil
    /\ calls[p] = MaxCalls - 2
    /\ Len(log[p]) > 0 /\ IsAddEntry(LastEntry(p)) /\ LastEntry(p).class = "2xx"
    /\ ReportsNotAdded(last[p].body)
    /\ \E n \in 1..Len(albums) :
         AssetsPath(albums[n].id) = LastEntry(p).path /\ st[p].assetID \in albums[n].assets

\* an identifier that is one UUID, leading slashes aside
UUIDShaped(s) == \E u \in UuidTokens : TrimLeftSlash(s) = <<u>>

\* C8: AddAssetToAlbum returns nil and sends no request when the asset ID is
\* empty or not UUID-shaped, the config is disabled, or neither an album ID
\* nor an album name is configured.
C8_NoOpSendsNothing ==
  \A p \in Procs :
    ( /\ st[p].op = "AddAssetToAlbum"
      /\ \/ st[p].arg = <<>>
         \/ ~UUIDShaped(st[p].arg)
         \/ ~Enabled(cfg)
         \/ cfg.AlbumID = "" /\ cfg.AlbumName = "" ) =>
      /\ log[p] = <<>>
      /\ st[p].pc = "returned" => st[p].err = Nil

\* the first listed album of the configured name
FirstListed(p) ==
  st[p].listed[CHOOSE n \in 1..Len(st[p].listed) :
     /\ EqualFold(DisplayName(st[p].listed[n]), cfg.AlbumName)
     /\ \A m \in 1..(n - 1) : ~EqualFold(DisplayName(st[p].listed[m]), cfg.AlbumName)]

\* C9: the membership add of AddAssetToAlbum goes to cfg.AlbumID when that is
\* set, and then nothing is listed or created; otherwise to the first listed
\* album whose display name equals cfg.AlbumName case-insensitively;
\* otherwise to the album the call created.  A create-album request follows
\* a successful listing that showed no album of the name, and nothing else.
C9_TargetAlbum ==
  \A p \in Procs :
    st[p].op = "AddAssetToAlbum" =>
      /\ cfg.AlbumID # "" =>
           \A k \in 1..Len(log[p]) :
             /\ ~IsListEntry(log[p][k]) /\ ~IsCreateEntry(log[p][k])
             /\ IsAddEntry(log[p][k]) => log[p][k].path = AssetsPath(cfg.AlbumID)
      /\ cfg.AlbumID = "" =>
           \A k \in 1..Len(log[p]) :
             /\ IsCreateEntry(log[p][k]) =>
                  /\ k > 1 /\ IsListEntry(log[p][k - 1]) /\ log[p][k - 1].class = "2xx"
                  /\ ~ListedMatch(p)
             /\ IsAddEntry(log[p][k]) =>
                  IF ListedMatch(p)
                  THEN log[p][k].path = AssetsPath(FirstListed(p).ID)
                  ELSE \E n \in 1..Len(albums) :
                         /\ albums[n].by = <<p, calls[p], st[p].arg>>
                         /\ log[p][k].path = AssetsPath(albums[n].id)

\* the membership-add requests of a call, in the order sent
Adds(p) == SelectSeq(log[p], IsAddEntry)

\* C10: AddAssetsToAlbum sends the membership add with PUT first and with
\* POST, to the same path, exactly when the PUT failed with 404 or 405.  A
\* 2xx PUT ends the call with nil, any other PUT failure is returned with no
\* POST sent, and when both fail with 404 or 405 the POST's error is returned.
C10_PutThenPost ==
  \A p \in Procs :
    st[p].op \in {"AddAssetsToAlbum", "AddAssetToAlbum"} =>
      LET adds == Adds(p) IN
      /\ Len(adds) <= 2
      /\ Len(adds) >= 1 => adds[1].method = "PUT"
      /\ Len(adds) = 2 =>
           /\ adds[2].method = "POST" /\ adds[2].path = adds[1].path
           /\ adds[1].class = "404or405"
           /\ st[p].pc = "returned"
           /\ adds[2].class = "2xx" => st[p].err = Nil
           /\ adds[2].class # "2xx" =>
                /\ st[p].err.kind \in {"httpStatusError", "transport"}
                /\ st[p].err.StatusCode = last[p].StatusCode
                /\ st[p].err.Message = last[p].Message
      /\ (Len(adds) = 1 /\ adds[1].class = "404or405") =>
           /\ st[p].pc = "doJSONWithFallback"
           /\ st[p].method = "POST" /\ st[p].paths = <<adds[1].path>>
      /\ (Len(adds) = 1 /\ adds[1].class = "2xx") =>
           st[p].pc = "returned" /\ st[p].err = Nil
      /\ (Len(adds) = 1 /\ adds[1].class = "fatal") =>
           /\ st[p].pc = "returned"
           /\ st[p].err.kind \in {"httpStatusError", "transport"}
           /\ st[p].err.StatusCode = last[p].StatusCode
           /\ st[p].err.Message = last[p].Message

\* PUT answered 405, POST answered 404: the POST's error is what is returned
C10_Witness ==
  \E p \in Procs :
    /\ st[p].op = "AddAssetsToAlbum" /\ st[p].pc = "returned"
    /\ Len(Adds(p)) = 2
    /\ Adds(p)[1].class = "404or405" /\ Adds(p)[2].class = "404or405"
    /\ st[p].outerErr = st[p].err
    /\ st[p].err = HttpStatusError(StatusNotFound, "POST " \o Adds(p)[2].path)

\* what doJSON made of the latest answer
LastResult(p) == doJSON(last[p])

\* C11: when the list-albums step or the create-album step of AddAssetToAlbum
\* fails (a status or transport failure that ends its probe, or a 2xx body
\* that does not decode), the failing request is the call's last one and the
\* call has returned that error; neither step is attempted a second time,
\* a create follows only a successful listing, and a membership add follows
\* only a successful listing or creation.
C11_ListOrCreateFailureIsFatal ==
  \A p \in Procs :
    (st[p].op = "AddAssetToAlbum" /\ Len(log[p]) > 0) =>
      LET e == LastEntry(p) IN
      /\ ( /\ IsListEntry(e)
           /\ \/ e.class = "fatal"
              \/ e.class = "404or405" /\ e.path = "/album" ) =>
           st[p].pc = "returned" /\ st[p].err = LastResult(p).err
      /\ (IsListEntry(e) /\ e.class = "2xx" /\ decodeAlbums(last[p].body).err # Nil) =>
           st[p].pc = "returned" /\ st[p].err = decodeAlbums(last[p].body).err
      /\ (IsCreateEntry(e) /\ e.class # "2xx") =>
           st[p].pc = "returned" /\ st[p].err = LastResult(p).err
      /\ (IsCreateEntry(e) /\ e.class = "2xx" /\ decodeAlbum(last[p].body).err # Nil) =>
           st[p].pc = "returned" /\ st[p].err = decodeAlbum(last[p].body).err
      /\ ~IsCreateEntry(log[p][1])
      /\ \A k \in 2..Len(log[p]) :
           /\ IsListEntry(log[p][k]) =>
                /\ k = 2 /\ log[p][k].path = "/album"
                /\ IsListEntry(log[p][1]) /\ log[p][1].class = "404or405"
           /\ IsCreateEntry(log[p][k]) =>
                IsListEntry(log[p][k - 1]) /\ log[p][k - 1].class = "2xx"
           /\ IsAddEntry(log[p][k]) =>
                \/ /\ log[p][k - 1].class = "2xx"
                   /\ IsListEntry(log[p][k - 1]) \/ IsCreateEntry(log[p][k - 1])
                \/ IsAddEntry(log[p][k - 1]) /\ log[p][k - 1].class = "404or405"

\* the listing showed no album of the name and the create was answered 500
C11_Witness ==
  \E p \in Procs :
    /\ st[p].op = "AddAssetToAlbum" /\ st[p].pc = "returned"
    /\ Len(log[p]) = 2
    /\ IsListEntry(log[p][1]) /\ log[p][1].class = "2xx"
    /\ IsCreateEntry(log[p][2]) /\ log[p][2].class = "fatal"
    /\ st[p].err = HttpStatusError(StatusInternalServerError, "POST /albums")

\* C12: once the caller's context is cancelled during a probing call, no
\* further candidate reaches the upstream: the one attempt made after it
\* fails in the transport with the context's error, unsent, and the call
\* returns that error without trying the remaining candidates.
C12_CancelStopsProbing ==
  \A p \in Procs :
    /\ \A k \in 1..Len(log[p]) :
         ~log[p][k].sent =>
           /\ k = Len(log[p])
           /\ st[p].pc = "returned"
           /\ st[p].err = TransportError("context canceled")
    /\ (ctxDone[p] /\ st[p].pc = "returned") =>
         /\ Len(log[p]) > 0 /\ ~LastEntry(p).sent
         /\ st[p].err = TransportError("context canceled")

\* cancelled after the first of three candidates answered 404 or 405
C12_Witness ==
  \E p \in Procs :
    /\ st[p].op = "doJSONWithFallback" /\ st[p].pc = "returned"
    /\ ctxDone[p]
    /\ Len(st[p].paths) = 3 /\ Len(log[p]) = 2
    /\ log[p][1].class = "404or405" /\ log[p][1].sent
    /\ ~log[p][2].sent
    /\ st[p].err = TransportError("context canceled")

\* the requests of ListAssets, as they appear on the wire
IsListAssetsEntry(e) ==
  e.method = "GET" /\ \E n \in 1..Len(ListAssetsPaths) : e.path = ListAssetsPaths[n]

\* C13: in the listAssets handler a fatal failure of the asset listing (a
\* status other than 404 and 405, or a transport error) is the last upstream
\* request of the invocation, and the handler answers 502.
C13_FatalListingIs502 ==
  \A p \in Procs :
    st[p].op = "listAssets" =>
      \A k \in 1..Len(log[p]) :
        (IsListAssetsEntry(log[p][k]) /\ log[p][k].class = "fatal") =>
          /\ k = Len(log[p])
          /\ st[p].pc = "returned" => st[p].httpStatus = StatusBadGateway

\* C14: a ListAssets or SearchAssets candidate answered 2xx is the last one
\* requested, and when its body does not decode as a list of assets the call
\* has returned the decoder's error.
C14_DecodeErrorNoFallback ==
  \A p \in Procs :
    st[p].op \in {"ListAssets", "SearchAssets"} =>
      /\ \A k \in 1..Len(log[p]) :
           log[p][k].class = "2xx" => k = Len(log[p]) /\ st[p].pc = "returned"
      /\ ( /\ Len(log[p]) > 0 /\ LastEntry(p).class = "2xx"
           /\ decodeAssetsFromUnknown(last[p].body).err # Nil ) =>
           st[p].err = decodeAssetsFromUnknown(last[p].body).err

\* /assets answered 404 or 405, then 2xx with an object that is no envelope
C14_Witness ==
  \E p \in Procs :
    /\ st[p].op = "ListAssets" /\ st[p].pc = "returned"
    /\ Len(log[p]) = 2
    /\ log[p][1].class = "404or405" /\ log[p][2].class = "2xx"
    /\ last[p].body.t = "obj"
    /\ st[p].err = DecodeError("failed to decode immich assets")

ParseReferenceCalls == {p \in Procs : st[p].op = "ParseReference" /\ st[p].pc = "returned"}

\* C15: decoding an encoded asset ID gives back exactly that ID, with no
\* character added, removed or trimmed, and reports a valid reference
\* whenever the ID is not empty; decoding a string that does not start with
\* "immich:" reports that it is no reference.
C15_RoundTripIsExact ==
  \A p \in ParseReferenceCalls :
    /\ \A id \in RefIDs :
         st[p].link = NormalizeReference(id) =>
           st[p].id = id /\ (id # <<>> => st[p].ok)
    /\ ~HasPrefix(st[p].link, ReferencePrefix) => ~st[p].ok

\* an ID with a leading slash came back from the round trip as it went in
C15_Witness ==
  \E p \in ParseReferenceCalls :
    /\ st[p].link = NormalizeReference(<<"/", "U1">>)
    /\ st[p].id = <<"/", "U1">>
    /\ st[p].ok

\* C16: decoding a string that starts with "immich:" returns the remainder
\* with its leading slashes trimmed, and reports it valid if and only if the
\* trimmed remainder is not empty ("immich:/" is no valid reference,
\* "immich:/abc" decodes to "abc").
C16_DecodeTrimsLeadingSlash ==
  \A p \in ParseReferenceCalls :
    HasPrefix(st[p].link, ReferencePrefix) =>
      /\ st[p].id = TrimLeftSlash(TrimPrefix(st[p].link, ReferencePrefix))
      /\ st[p].ok = (TrimLeftSlash(TrimPrefix(st[p].link, ReferencePrefix)) # <<>>)

ExtractCalls ==
  {p \in Procs : st[p].op = "ExtractAssetIDFromLink" /\ st[p].pc = "returned"}

\* the link goes the way of a generic URL: it is not blank and does not
\* carry the reference prefix
GenericURL(link) ==
  TrimSpace(link) # <<>> /\ ~HasPrefix(TrimSpace(link), ReferencePrefix)

\* the link has a host, the base URL has one, and the two are equal up to case
HostMatchesBase(link, base) ==
  /\ ~urlParse(TrimSpace(link)).err /\ urlParse(TrimSpace(link)).Host # <<>>
  /\ ~urlParse(base).err /\ urlParse(base).Host # <<>>
  /\ EqualFoldHost(urlParse(TrimSpace(link)).Host, urlParse(base).Host)

\* C17: for a link handled as a generic URL while a base URL is configured,
\* an asset ID is found only if the link's host equals the base URL's host
\* up to case (a link to another host is not found, whatever UUIDs its path
\* and query hold), and a link to the matching host with a UUID in its path
\* yields that UUID.
C17_HostMustMatchBase ==
  \A p \in ExtractCalls :
    (GenericURL(st[p].link) /\ cfg.BaseURL # <<>>) =>
      /\ st[p].ok => HostMatchesBase(st[p].link, cfg.BaseURL)
      /\ ( /\ HostMatchesBase(st[p].link, cfg.BaseURL)
           /\ uuidPatternMatchString(urlParse(TrimSpace(st[p].link)).Path) )
         => /\ st[p].ok
            /\ st[p].id = uuidPatternFindString(urlParse(TrimSpace(st[p].link)).Path)

\* the host in other case than the base URL's, and the UUID of the path found
C17_Witness ==
  \E p \in ExtractCalls :
    /\ cfg.BaseURL = <<"https:", "/", "/", "h">>
    /\ st[p].link = <<"https:", "/", "/", "H", "/", "x", "/", "U1">>
    /\ st[p].ok /\ st[p].id = <<"U1">>

\* a link to another host than the base URL's, a UUID in its path, not found
C17_WitnessMismatch ==
  \E p \in ExtractCalls :
    /\ cfg.BaseURL = <<"https:", "/", "/", "o">>
    /\ st[p].link = <<"https:", "/", "/", "h", "/", "x", "/", "U1">>
    /\ ~st[p].ok

DecodeSearchAssetsCalls ==
  {p \in Procs : st[p].op = "decodeSearchAssets" /\ st[p].pc = "returned"}

\* the records of p's payload all decode as asset records
ValidRecords(p) == \A k \in 1..Len(st[p].arg) : AssetOk(st[p].arg[k])

\* C18: for each of the four envelopes (bare array, {"assets": [...]},
\* {"assets": {"items": [...]}}, {"items": [...]}) around N valid records,
\* decodeSearchAssets returns exactly N assets, in the order of the records,
\* the asset at each position built from the record at that position.
C18_EnvelopesKeepCountAndOrder ==
  \A p \in DecodeSearchAssetsCalls :
    (st[p].i \in 1..4 /\ ValidRecords(p)) =>
      /\ st[p].err = Nil
      /\ Len(st[p].resp.Assets) = Len(st[p].arg)
      /\ \A k \in 1..Len(st[p].arg) :
           st[p].resp.Assets[k] = decodeAssetRaw(st[p].arg[k]).asset

\* two records in the nested envelope, decoded in their order
C18_Witness ==
  \E p \in DecodeSearchAssetsCalls :
    /\ st[p].i = 3
    /\ st[p].arg = <<AssetJson2, AssetJson1>>
    /\ st[p].err = Nil
    /\ Len(st[p].resp.Assets) = 2
    /\ st[p].resp.Assets[1].ID = <<"U2">> /\ st[p].resp.Assets[2].ID = <<"U1">>

DecodeAssetRawCalls ==
  {p \in Procs : st[p].op = "decodeAssetRaw" /\ st[p].pc = "returned"}

\* the first of the record's id, assetId, deviceAssetId and uuid that is not
\* empty
FirstIdField(raw) ==
  IF StrField(raw, "id", <<>>) # <<>> THEN StrField(raw, "id", <<>>)
  ELSE IF StrField(raw, "assetId", <<>>) # <<>> THEN StrField(raw, "assetId", <<>>)
  ELSE IF StrField(raw, "deviceAssetId", <<>>) # <<>>
  THEN StrField(raw, "deviceAssetId", <<>>)
  ELSE StrField(raw, "uuid", <<>>)

\* C19: the canonical id of a decoded asset is the first non-empty of the
\* record's id, assetId, deviceAssetId and uuid, in that order, with every
\* leading "/" stripped; only if that is empty is it the first UUID-shaped
\* substring of the record's raw JSON, and if there is none it stays empty.
C19_CanonicalId ==
  \A p \in DecodeAssetRawCalls :
    st[p].err = Nil =>
      st[p].asset.ID =
        IF TrimLeftSlash(FirstIdField(st[p].data)) # <<>>
        THEN TrimLeftSlash(FirstIdField(st[p].data))
        ELSE IF uuidPatternMatchString(RawText(st[p].data))
        THEN uuidPatternFindString(RawText(st[p].data))
        ELSE <<>>

\* an id of slashes only: the later assetId is not consulted, the raw text
\* holds no UUID, and the id stays empty
C19_Witness ==
  \E p \in DecodeAssetRawCalls :
    /\ st[p].data = JObj(<< <<"id", JStr(<<"/">>)>>, <<"assetId", JStr(<<"x">>)>> >>)
    /\ st[p].err = Nil
    /\ st[p].asset.ID = <<>>

\* an id of slashes only, and the UUID found in the raw text
C19_WitnessRawText ==
  \E p \in DecodeAssetRawCalls :
    /\ st[p].data = JObj(<< <<"id", JStr(<<"/">>)>>, <<"thumb", JStr(<<"/", "U1">>)>> >>)
    /\ st[p].asset.ID = <<"U1">>

\* the calls that hand assets to a consumer, returned without an error
AssetCalls ==
  {p \in Procs : /\ st[p].op \in {"ListAssets", "SearchAssets", "listAssets"}
                 /\ st[p].pc = "returned"
                 /\ st[p].err = Nil}

\* C20: every asset that reaches a consumer has a non-empty id: the assets
\* decodeSearchAssets returned to ListAssets and SearchAssets, and the
\* entries the listAssets handler emits, whose thumbnail and preview URLs
\* are built from the id.
C20_NoEmptyAssetId ==
  \A p \in AssetCalls :
    /\ \A k \in 1..Len(st[p].resp.Assets) : st[p].resp.Assets[k].ID # <<>>
    /\ \A k \in 1..Len(st[p].emitted) : st[p].emitted[k].id # <<>>

DecodeAlbumsCalls ==
  {p \in Procs : st[p].op = "decodeAlbums" /\ st[p].pc = "returned"}

\* C21: decodeAlbums accepts a bare array and an {"albums": [...]} wrapper
\* and returns the listed albums in their order without an error, whatever
\* the length of the list, the empty list included.
C21_BothAlbumListForms ==
  \A p \in DecodeAlbumsCalls :
    (st[p].i \in {1, 2} /\ \A k \in 1..Len(st[p].arg) : AlbumOk(st[p].arg[k])) =>
      /\ st[p].err = Nil
      /\ st[p].listed = [k \in 1..Len(st[p].arg) |-> AlbumOf(st[p].arg[k])]

DecodeAlbumCalls ==
  {p \in Procs : st[p].op = "decodeAlbum" /\ st[p].pc = "returned"}

\* an album with an identity: its id or one of its names is not empty
HasIdentity(a) == a.ID # "" \/ a.AlbumName # "" \/ a.Name # ""

\* the album the bare form of a payload holds, and the one its wrapper holds
BareAlbum(data) == IF AlbumOk(data) THEN AlbumOf(data) ELSE NoAlbum
WrappedAlbum(data) ==
  IF data.t = "obj" /\ HasKey(data, "album") /\ AlbumOk(Member(data, "album"))
  THEN AlbumOf(Member(data, "album")) ELSE NoAlbum

\* C22: decodeAlbum returns an album only if the album has an identity,
\* taken from the bare object first and otherwise from the {"album": {...}}
\* wrapper; a payload in which neither form has an identity is a decode
\* error, never an empty album returned as a success.
C22_NoEmptyAlbumReturned ==
  \A p \in DecodeAlbumCalls :
    /\ st[p].err = Nil => HasIdentity(st[p].album)
    /\ HasIdentity(BareAlbum(st[p].data)) =>
         st[p].err = Nil /\ st[p].album = BareAlbum(st[p].data)
    /\ (~HasIdentity(BareAlbum(st[p].data)) /\ HasIdentity(WrappedAlbum(st[p].data))) =>
         st[p].err = Nil /\ st[p].album = WrappedAlbum(st[p].data)
    /\ (~HasIdentity(BareAlbum(st[p].data)) /\ ~HasIdentity(WrappedAlbum(st[p].data))) =>
         st[p].err # Nil

\* the invocations of the listAssets handler that answered 200
ListAssetsAnswers ==
  {p \in Procs : /\ st[p].op = "listAssets" /\ st[p].pc = "returned"
                 /\ st[p].httpStatus = StatusOK}

\* C23: the nextPageToken of the listAssets handler is the upstream's
\* nextPageToken when that is not empty, otherwise the decimal form of the
\* upstream's nextPage when that is greater than 0, otherwise empty: a
\* payload with neither field reports no further pages.
C23_OneNormalizedCursor ==
  \A p \in ListAssetsAnswers :
    st[p].nextPageToken =
      IF StrField(last[p].body, "nextPageToken", "") # ""
      THEN StrField(last[p].body, "nextPageToken", "")
      ELSE IF NumField(last[p].body, "nextPage") > 0
      THEN Itoa(NumField(last[p].body, "nextPage"))
      ELSE ""

\* a payload with a page number only, answered with its decimal form
C23_Witness ==
  \E p \in ListAssetsAnswers :
    /\ HasKey(last[p].body, "nextPage") /\ ~HasKey(last[p].body, "nextPageToken")
    /\ NumField(last[p].body, "nextPage") = 2
    /\ st[p].nextPageToken = "2"

\* a payload with both fields, answered with the token
C23_WitnessBoth ==
  \E p \in ListAssetsAnswers :
    /\ HasKey(last[p].body, "nextPage") /\ HasKey(last[p].body, "nextPageToken")
    /\ st[p].nextPageToken = "t2"

\* a payload with neither field, answered with no further pages
C23_WitnessNeither ==
  \E p \in ListAssetsAnswers :
    /\ last[p].body.t = "arr"
    /\ st[p].nextPageToken = ""

\* the handler invocations that handleLoadMore made, past the page parameters
LoadMoreCalls ==
  {p \in Procs : /\ st[p].op = "listAssets" /\ st[p].loadMore
                 /\ st[p].pc # "idle" /\ st[p].page > 0}

\* C28: feeding the handler's nextPageToken back as pageToken always
\* advances: the page asked of the upstream for the follow-up is the one
\* the cursor denotes, never page 1 again, for a string cursor taken from
\* the upstream's nextPageToken as for a numeric one.
C28_LoadMoreAdvances ==
  \A p \in LoadMoreCalls :
    /\ st[p].page # 1
    /\ Atoi(st[p].pageToken).ok => st[p].page = Atoi(st[p].pageToken).n

FetchAssetCalls == {p \in Procs : st[p].op = "FetchAsset" /\ st[p].pc = "returned"}

\* the header is on the inbound request, with a value
Present(h, key) == key \in DOMAIN h /\ h[key] # <<>> /\ h[key][1] # ""

\* C24: FetchAsset makes exactly one upstream request; its Range and
\* If-Range headers are those of the inbound request, value for value, when
\* the inbound request has them and are absent when it has not; nothing is
\* probed or retried, and the upstream's response is returned as it is.
C24_FetchAssetForwardsOnce ==
  \A p \in FetchAssetCalls :
    /\ Len(log[p]) = 1
    /\ \A key \in {"Range", "If-Range"} :
         IF Present(st[p].requestHeaders, key)
         THEN key \in DOMAIN st[p].header /\ st[p].header[key] = st[p].requestHeaders[key]
         ELSE key \notin DOMAIN st[p].header
    /\ DOMAIN st[p].header \subseteq {"Range", "If-Range"}
    /\ last[p].StatusCode # TransportFailure =>
         /\ st[p].err = Nil
         /\ st[p].httpStatus = last[p].StatusCode
         /\ st[p].data = last[p].body

\* both headers forwarded, the upstream answered 404, and the 404 is what
\* the one request of the call returned
C24_Witness ==
  \E p \in FetchAssetCalls :
    /\ Present(st[p].requestHeaders, "Range")
    /\ Present(st[p].requestHeaders, "If-Range")
    /\ st[p].header = st[p].requestHeaders
    /\ Len(log[p]) = 1 /\ log[p][1].class = "404or405"
    /\ st[p].httpStatus = StatusNotFound /\ st[p].err = Nil

\* the direct calls of AddAssetsToAlbum, f.arg the asset IDs they were given
AddAssetsToAlbumCalls ==
  {p \in Procs : st[p].op = "AddAssetsToAlbum" /\ st[p].pc # "idle"}

\* C25: AddAssetsToAlbum called with an empty list of asset IDs sends
\* nothing upstream and returns no error.
C25_EmptyListIsNoOp ==
  \A p \in AddAssetsToAlbumCalls :
    st[p].arg = <<>> =>
      st[p].pc = "returned" /\ st[p].err = Nil /\ log[p] = <<>>

\* an empty list for an album the upstream holds
C25_Witness ==
  \E p \in AddAssetsToAlbumCalls :
    /\ st[p].arg = <<>> /\ st[p].albumID = "a1"
    /\ \E k \in 1..Len(albums) : albums[k].id = "a1"
    /\ st[p].pc = "returned" /\ st[p].err = Nil /\ log[p] = <<>>

\* the AddAssetToAlbum calls that went past the no-op checks and returned nil
BoundCalls ==
  {p \in Procs : /\ st[p].op = "AddAssetToAlbum" /\ st[p].pc = "returned"
                 /\ st[p].err = Nil
                 /\ st[p].arg # <<>>
                 /\ uuidPatternMatchString(TrimLeftSlash(st[p].arg))
                 /\ Enabled(cfg)
                 /\ (cfg.AlbumID # "" \/ cfg.AlbumName # "")}

\* C26: when AddAssetToAlbum is past its no-op checks (UUID-shaped asset ID,
\* enabled config, album ID or album name configured) and returns nil, the
\* upstream has answered 2xx to a membership add of that asset to the
\* resolved album: success is never reported without a membership add, also
\* when the listed or created album came back without an id.
C26_SuccessMeansAdded ==
  \A p \in BoundCalls :
    /\ Len(log[p]) > 0
    /\ IsAddEntry(LastEntry(p)) /\ LastEntry(p).class = "2xx"
    /\ \E n \in 1..Len(albums) :
         /\ AssetsPath(albums[n].id) = LastEntry(p).path
         /\ TrimLeftSlash(st[p].arg) \in albums[n].assets

\* the links that were evaluated twice
ExtractedTwice ==
  {p \in Procs : st[p].op = "ExtractAssetIDFromLink" /\ st[p].pc = "returned twice"}

\* C27: ExtractAssetIDFromLink is a function of the link and the config: two
\* evaluations of the same input return the same identifier.  A UUID in the
\* path of a URL takes priority, and for a URL with UUIDs in several query
\* parameters and none in its path every evaluation returns the same match.
C27_SameInputSameId ==
  \A p \in ExtractedTwice :
    /\ st[p].id2 = st[p].id /\ st[p].ok2 = st[p].ok
    /\ ( /\ GenericURL(st[p].link) /\ st[p].ok
         /\ uuidPatternMatchString(urlParse(TrimSpace(st[p].link)).Path) ) =>
         st[p].id = uuidPatternFindString(urlParse(TrimSpace(st[p].link)).Path)

\* the direct calls of ListAssets
ListAssetsCalls ==
  {p \in Procs : st[p].op = "ListAssets" /\ st[p].pc # "idle"}

\* C29: within one ListAssets call, whatever the page, size and order (an
\* empty order included), no two requests sent upstream have the same path
\* and the same query string.
C29_NoRequestTwice ==
  \A p \in ListAssetsCalls :
    \A i, j \in 1..Len(log[p]) :
      ( /\ i < j /\ log[p][i].sent /\ log[p][j].sent
        /\ log[p][i].path = log[p][j].path ) =>
        log[p][i].query # log[p][j].query

\* the requests the two handlers of the router were given
HandlerCalls ==
  {p \in Procs : st[p].op \in {"listAlbums", "listAssets"} /\ st[p].pc # "idle"}

\* C30: the listAlbums and listAssets handlers send a request upstream only
\* for an authenticated user and an enabled config.  A request with neither
\* a valid bearer token nor a valid refresh cookie is answered 401, one of a
\* user under a disabled config 400, and neither sends anything upstream.
C30_UpstreamOnlyForUserAndConfig ==
  \A p \in HandlerCalls :
    /\ log[p] # <<>> =>
         (st[p].bearer = "valid" \/ st[p].cookie = "valid") /\ Enabled(cfg)
    /\ (st[p].bearer # "valid" /\ st[p].cookie # "valid") =>
         /\ st[p].pc = "returned" /\ st[p].httpStatus = StatusUnauthorized
         /\ log[p] = <<>>
    /\ ((st[p].bearer = "valid" \/ st[p].cookie = "valid") /\ ~Enabled(cfg)) =>
         /\ st[p].pc = "returned" /\ st[p].httpStatus = StatusBadRequest
         /\ log[p] = <<>>

\* a bearer token and a cookie, neither valid, refused by listAlbums under an
\* enabled config
C30_Witness ==
  \E p \in HandlerCalls :
    /\ st[p].op = "listAlbums"
    /\ st[p].bearer = "invalid" /\ st[p].cookie = "invalid"
    /\ Enabled(cfg) /\ NewClientOk(cfg)
    /\ st[p].pc = "returned" /\ st[p].httpStatus = StatusUnauthorized
    /\ log[p] = <<>>

\* a user known by the refresh cookie alone, refused by listAssets under a
\* disabled config
C30_WitnessDisabled ==
  \E p \in HandlerCalls :
    /\ st[p].op = "listAssets"
    /\ st[p].bearer = "invalid" /\ st[p].cookie = "valid"
    /\ ~Enabled(cfg)
    /\ st[p].pc = "returned" /\ st[p].httpStatus = StatusBadRequest
    /\ log[p] = <<>>

\* a user under an enabled config, the album list passed on
C30_WitnessServed ==
  \E p \in HandlerCalls :
    /\ st[p].op = "listAlbums"
    /\ st[p].cookie = "valid" /\ Enabled(cfg)
    /\ st[p].pc = "returned" /\ st[p].httpStatus = StatusOK
    /\ log[p] # <<>> /\ Len(st[p].listed) = 2

----------------------------------------------------------------------------
(* The picker dialog (ImmichPickerDialog).  Its props open and             *)
(* attachedAssetIds and its state selectedIds and isSelecting are fields   *)
(* of the frame of the one dialog there is; a JavaScript Set is the        *)
(* sequence of its members in insertion order.  log holds the calls the    *)
(* dialog makes on its props onApplySelection and onOpenChange, pending    *)
(* counts the promises of onApplySelection that have not settled.  A       *)
(* handler runs on the state of the latest render: React commits the       *)
(* updates of one handler, and runs the effects they trigger, before the   *)
(* next event is handled.                                                  *)

\* events the user and the parent component cause in one behaviour
MaxEvents == 5

PickerAssetIds == {"U1", "U2"}

\* the attachedAssetIds the parent hands down
AttachedLists == Seqs(PickerAssetIds, 2)

Has(set, id) == \E k \in 1..Len(set) : set[k] = id

Delete(set, id) == SelectSeq(set, LAMBDA x : x # id)

\* new Set(array)
RECURSIVE NewSet(_)
NewSet(array) ==
  IF array = <<>> THEN <<>>
  ELSE LET front == NewSet(SubSeq(array, 1, Len(array) - 1))
           x == array[Len(array)]
       IN IF Has(front, x) THEN front ELSE Append(front, x)

hasSelectionChanged(selectedIds, attachedAssetIds) ==
  LET attachedIdSet == NewSet(attachedAssetIds) IN
  IF Len(selectedIds) # Len(attachedIdSet) THEN TRUE
  ELSE \E k \in 1..Len(selectedIds) : ~Has(attachedIdSet, selectedIds[k])

\* the effect on [attachedAssetIds, fetchAssets, open]
SelectionEffect(f) ==
  IF ~f.open THEN [f EXCEPT !.selectedIds = <<>>]
  ELSE [f EXCEPT !.selectedIds = NewSet(f.attachedAssetIds)]

OnApplySelection(ids) == [call |-> "onApplySelection", ids |-> ids, open |-> FALSE]
OnOpenChange(open) == [call |-> "onOpenChange", ids |-> <<>>, open |-> open]

\* a toggle that goes through while an apply is in progress
handleSelectAsset_WhileSelecting(f, id) ==
  IF Has(f.selectedIds, id)
  THEN [f EXCEPT !.selectedIds = Delete(@, id)]
  ELSE [f EXCEPT !.selectedIds = Append(@, id)]

handleSelectAsset(f, id) ==
  IF f.isSelecting THEN f
  ELSE IF Has(f.selectedIds, id)
  THEN [f EXCEPT !.selectedIds = Delete(@, id)]
  ELSE [f EXCEPT !.selectedIds = Append(@, id)]

\* a close request that applies whenever the selection has changed, an
\* apply in progress or not
handleOpenChange_AppliesAgain(f, nextOpen) ==
  IF nextOpen THEN [f |-> f, out |-> <<OnOpenChange(TRUE)>>]
  ELSE IF ~hasSelectionChanged(f.selectedIds, f.attachedAssetIds)
  THEN [f |-> f, out |-> <<OnOpenChange(FALSE)>>]
  ELSE [f |-> [f EXCEPT !.isSelecting = TRUE, !.pending = @ + 1],
        out |-> <<OnApplySelection(f.selectedIds)>>]

\* handleOpenChange up to its return: the frame it leaves and the calls it
\* made on the props; Array.from(selectedIds) is the members in insertion
\* order
handleOpenChange(f, nextOpen) ==
  IF nextOpen THEN [f |-> f, out |-> <<OnOpenChange(TRUE)>>]
  ELSE IF ~hasSelectionChanged(f.selectedIds, f.attachedAssetIds) \/ f.isSelecting
  THEN [f |-> f, out |-> <<OnOpenChange(FALSE)>>]
  ELSE [f |-> [f EXCEPT !.isSelecting = TRUE, !.pending = @ + 1],
        out |-> <<OnApplySelection(f.selectedIds)>>]

\* the promise of onApplySelection settles: .catch on a rejection, then
\* .finally
ApplySettled(f, outcome) ==
  [f |-> [f EXCEPT !.isSelecting = FALSE, !.pending = @ - 1, !.event = outcome,
                   !.err = IF outcome = "rejected"
                           THEN [kind |-> "toast", StatusCode |-> 0,
                                 Message |-> "Failed to attach Immich assets"]
                           ELSE Nil],
   out |-> <<OnOpenChange(FALSE)>>]

\* the dialog mounted under the props open and attachedAssetIds, its first
\* effect run
Mounted(open, attachedAssetIds) ==
  SelectionEffect([IdleFrame EXCEPT !.op = "ImmichPickerDialog", !.pc = "mounted",
                                    !.open = open,
                                    !.attachedAssetIds = attachedAssetIds,
                                    !.event = "mount"])

InitPicker ==
  /\ cfg = [BaseURL |-> "", APIKey |-> "", AlbumName |-> "", AlbumID |-> ""]
  /\ albums = <<>>
  /\ \E open \in BOOLEAN, attachedAssetIds \in AttachedLists :
       st = [p \in Procs |-> IF p = 1 THEN Mounted(open, attachedAssetIds)
                             ELSE IdleFrame]
  /\ log = [p \in Procs |-> <<>>]
  /\ last = [p \in Procs |-> NoAnswer]
  /\ calls = [p \in Procs |-> IF p = 1 THEN MaxEvents ELSE 0]
  /\ ctxDone = [p \in Procs |-> FALSE]

\* the handler of p's dialog left the frame r.f and made the calls r.out
PickerStep(p, r, user) ==
  /\ st' = [st EXCEPT ![p] = r.f]
  /\ log' = [log EXCEPT ![p] = @ \o r.out]
  /\ calls' = [calls EXCEPT ![p] = @ - user]
  /\ UNCHANGED <<cfg, albums, last, ctxDone>>

\* the user clicks an asset of the grid of the open dialog
ClickAsset(p) ==
  /\ st[p].op = "ImmichPickerDialog" /\ st[p].open /\ calls[p] > 0
  /\ \E id \in PickerAssetIds :
       PickerStep(p, [f |-> handleSelectAsset([st[p] EXCEPT !.event = "toggle"], id),
                      out |-> <<>>], 1)

\* the open dialog is asked to close (Escape, a click outside, the close
\* button)
CloseRequest(p) ==
  /\ st[p].op = "ImmichPickerDialog" /\ st[p].open /\ calls[p] > 0
  /\ PickerStep(p, handleOpenChange([st[p] EXCEPT !.event = "close"], FALSE), 1)

\* the closed dialog is asked to open
OpenRequest(p) ==
  /\ st[p].op = "ImmichPickerDialog" /\ ~st[p].open /\ calls[p] > 0
  /\ PickerStep(p, handleOpenChange([st[p] EXCEPT !.event = "open"], TRUE), 1)

\* the promise of an apply in progress settles, fulfilled or rejected
ApplySettles(p) ==
  /\ st[p].op = "ImmichPickerDialog" /\ st[p].pending > 0
  /\ \E outcome \in {"fulfilled", "rejected"} :
       PickerStep(p, ApplySettled(st[p], outcome), 0)

\* the parent renders the dialog with props of its choice (after a call of
\* onOpenChange or onApplySelection, or on its own); the effect runs on them
ParentRenders(p) ==
  /\ st[p].op = "ImmichPickerDialog" /\ calls[p] > 0
  /\ \E open \in BOOLEAN, attachedAssetIds \in AttachedLists :
       PickerStep(p, [f |-> SelectionEffect([st[p] EXCEPT
                                               !.open = open,
                                               !.attachedAssetIds = attachedAssetIds,
                                               !.event = "render"]),
                      out |-> <<>>], 1)

NextPicker ==
  \/ ClickAsset(1)
  \/ CloseRequest(1)
  \/ OpenRequest(1)
  \/ ApplySettles(1)
  \/ ParentRenders(1)

SpecPicker == InitPicker /\ [][NextPicker]_vars

\* the members of a list of ids
Members(ids) == {ids[k] : k \in 1..Len(ids)}

\* the picker dialogs there are
PickerDialogs == {p \in Procs : st[p].op = "ImmichPickerDialog"}

\* C31: a close request of the picker dialog calls onApplySelection exactly
\* once, with the ids selected at that moment, if and only if the selected
\* set differs from the attached set and no apply is in progress, and then
\* does not close yet; otherwise it closes the dialog (onOpenChange(false))
\* without calling onApplySelection.  When the apply settles, fulfilled or
\* rejected, isSelecting is reset and the dialog is closed.  A click on an
\* asset while an apply is in progress leaves the selection as it is.
C31_CloseAppliesOnce ==
  [][\A p \in PickerDialogs :
       LET f == st[p]
           g == st'[p]
           out == SubSeq(log'[p], Len(log[p]) + 1, Len(log'[p]))
           differs == Members(f.selectedIds) # Members(f.attachedAssetIds)
           applying == f.pending > 0
           user == calls'[p] = calls[p] - 1
       IN /\ (user /\ g.event = "close") =>
               IF differs /\ ~applying
               THEN /\ Len(out) = 1
                    /\ out[1].call = "onApplySelection"
                    /\ Members(out[1].ids) = Members(f.selectedIds)
                    /\ Len(out[1].ids) = Cardinality(Members(f.selectedIds))
                    /\ g.pending = 1
               ELSE /\ out = <<OnOpenChange(FALSE)>>
                    /\ g.pending = f.pending
          /\ (g.pending = f.pending - 1) =>
               /\ out = <<OnOpenChange(FALSE)>>
               /\ ~g.isSelecting /\ g.pending = 0
          /\ (user /\ g.event = "toggle" /\ applying) =>
               g.selectedIds = f.selectedIds
    ]_vars

\* an apply of a changed selection that was rejected: one call of
\* onApplySelection, a close request during the apply that closed without
\* another, and the close once the promise settled
C31_Witness ==
  \E p \in PickerDialogs :
    /\ st[p].event = "rejected" /\ ~st[p].isSelecting /\ st[p].pending = 0
    /\ Len(log[p]) = 3
    /\ log[p][1].call = "onApplySelection" /\ log[p][1].ids = <<"U2", "U1">>
    /\ log[p][2] = OnOpenChange(FALSE)
    /\ log[p][3] = OnOpenChange(FALSE)

\* a click on an asset during an apply
C31_WitnessToggle ==
  \E p \in PickerDialogs :
    /\ st[p].event = "toggle" /\ st[p].pending > 0 /\ st[p].open
    /\ st[p].selectedIds = <<"U1">> /\ st[p].attachedAssetIds = <<>>

\* a close request with the selection unchanged, the attached list holding
\* an id twice
C31_WitnessUnchanged ==
  \E p \in PickerDialogs :
    /\ st[p].event = "close" /\ st[p].pending = 0
    /\ st[p].attachedAssetIds = <<"U1", "U1">> /\ st[p].selectedIds = <<"U1">>
    /\ log[p] = <<OnOpenChange(FALSE)>>

\* an apply that was fulfilled
C31_WitnessFulfilled ==
  \E p \in PickerDialogs :
    /\ st[p].event = "fulfilled" /\ ~st[p].isSelecting
    /\ Len(log[p]) = 2 /\ log[p][1].call = "onApplySelection"
    /\ log[p][2] = OnOpenChange(FALSE)


====
